---- MODULE Spec2Model ----
(***************************************************************************)
(* The demonstration scripts of js-prep, run by a small-step evaluator of  *)
(* the JavaScript constructs they use: hoisting of var and function        *)
(* declarations, the temporal dead zone of let and const, block and        *)
(* function scopes, closures, the timer queue, and uncaught exceptions.    *)
(* Each script or README snippet is a block of statements; the evaluator   *)
(* runs one statement per step and records what console.log prints.        *)
(***************************************************************************)
EXTENDS Integers, Sequences, FiniteSets, TLC

VARIABLES
  queue,    \* the scripts still to run in this session, in order
  script,   \* the script being run ("" before the first is loaded)
  stack,    \* the call stack: frames [blk, pc, env, kind, called, ret, iter]
  scopes,   \* the environment records: [parent, b, fn, this], b maps a name to a binding
  heap,     \* the objects: [cls, proto, keys, vals]
  timers,   \* pending setTimeout callbacks: [fn, due, seq]
  now,      \* the clock, in milliseconds since the script was started
  out,      \* the lines console.log has printed, oldest first
  error,    \* the uncaught exception that ended the script, "" when none
  finished, \* the scripts of the session that ended: [script, out, error]
  lab       \* what a program of built-in calls works on, and the last call it made

vars == <<queue, script, stack, scopes, heap, timers, now, out, error, finished, lab>>

\* How many clock ticks may pass while synchronous code runs.
MaxTicks == 1

-----------------------------------------------------------------------------
(* Values: every value is a record [t, n, s] so that any two compare.      *)

Undef == [t |-> "undefined", n |-> 0, s |-> "", body |-> <<>>]
Num(k) == [t |-> "number", n |-> k, s |-> "", body |-> <<>>]
Str(x) == [t |-> "string", n |-> 0, s |-> x, body |-> <<>>]
\* A function value is a closure: its name, the place of its body in the
\* script, and the scope it was created in.
Fun(name, body, env) == [t |-> "function", n |-> env, s |-> name, body |-> body]
\* An object value is a reference into the heap.
Obj(id) == [t |-> "object", n |-> id, s |-> "", body |-> <<>>]
\* The number that is not a number.
NaN == [t |-> "number", n |-> 0, s |-> "NaN", body |-> <<>>]

Digit(d) == <<"0", "1", "2", "3", "4", "5", "6", "7", "8", "9">>[d + 1]

RECURSIVE NumStr(_)
NumStr(k) ==
  IF k < 0 THEN "-" \o NumStr(-k)
  ELSE IF k < 10 THEN Digit(k)
  ELSE NumStr(k \div 10) \o Digit(k % 10)

\* How an object of the heap h is shown inside console.log output.
RECURSIVE Inspect(_, _, _)
Inspect(v, h, depth) ==
  CASE v.t = "undefined" -> "undefined"
    [] v.t = "number" -> IF v = NaN THEN "NaN" ELSE NumStr(v.n)
    [] v.t = "string" -> "'" \o v.s \o "'"
    [] v.t = "function" -> "[Function: " \o v.s \o "]"
    [] v.t = "object" ->
         LET o == h[v.n]
             Props[i \in 0..Len(o.keys)] ==
               IF i = 0 THEN ""
               ELSE Props[i - 1] \o (IF i = 1 THEN " " ELSE ", ") \o o.keys[i] \o ": "
                      \o Inspect(o.vals[o.keys[i]], h, depth + 1)
             Items[i \in 0..Len(o.keys)] ==
               IF i = 0 THEN ""
               ELSE Items[i - 1] \o (IF i = 1 THEN " " ELSE ", ")
                      \o Inspect(o.vals[o.keys[i]], h, depth + 1)
         IN IF o.cls = "Array"
            THEN IF depth > 2 THEN "[Array]"
                 ELSE IF o.keys = <<>> THEN "[]" ELSE "[" \o Items[Len(o.keys)] \o " ]"
            ELSE IF depth > 2 THEN "[Object]"
            ELSE (IF o.cls = "" THEN "" ELSE o.cls \o " ")
                   \o (IF o.keys = <<>> THEN "{}" ELSE "{" \o Props[Len(o.keys)] \o " }")

\* What console.log prints for one argument.
Format(v, h) == IF v.t = "string" THEN v.s ELSE Inspect(v, h, 0)

RECURSIVE JoinArgs(_, _)
JoinArgs(vs, h) ==
  IF vs = <<>> THEN ""
  ELSE IF Len(vs) = 1 THEN Format(vs[1], h)
  ELSE Format(vs[1], h) \o " " \o JoinArgs(Tail(vs), h)

\* String(v), as a template literal converts a value.
ToText(v) ==
  CASE v.t = "string" -> v.s
    [] v.t = "number" -> IF v = NaN THEN "NaN" ELSE NumStr(v.n)
    [] v.t = "undefined" -> "undefined"
    [] v.t = "object" -> "[object Object]"
    [] v.t = "function" -> "function " \o v.s

-----------------------------------------------------------------------------
(* Syntax: statements and expressions of the scripts.                      *)

Lit(v) == [e |-> "lit", v |-> v]
StrLit(x) == Lit(Str(x))
NumLit(k) == Lit(Num(k))
Id(name) == [e |-> "id", name |-> name]
TypeOf(name) == [e |-> "typeof", name |-> name]
This == [e |-> "this"]
\* function (params) { body } and (params) => body
FuncExpr(params, body) == [e |-> "func", params |-> params, body |-> body, arrow |-> FALSE]
Arrow(params, body) == [e |-> "func", params |-> params, body |-> body, arrow |-> TRUE]
\* { k: x, ... }; props is a sequence of [k, x]
ObjLit(props) == [e |-> "obj", props |-> props]
Prop(k, x) == [k |-> k, x |-> x]
\* base.prop
Member(base, prop) == [e |-> "member", x |-> base, prop |-> prop]
\* `...${x}...`
Template(parts) == [e |-> "template", parts |-> parts]
\* [x, ...]
ArrayLit(elems) == [e |-> "array", args |-> elems]
\* x, or d when x is undefined: a destructuring default
Default(x, d) == [e |-> "default", x |-> x, d |-> d]
\* A library function applied to arguments: new Object(x), Object.entries(x),
\* Object.fromEntries(x), and new Date() with its conversions to text.
Native(name, args) == [e |-> "native", name |-> name, args |-> args]
\* The value of the call the statement makes.
CallResult == [e |-> "ret"]

Log(args) == [op |-> "log", args |-> args]
LogCall(callee, cargs, args) ==
  [op |-> "log", args |-> args, call |-> callee, cargs |-> cargs, new |-> FALSE]
CallStmt(callee, cargs) ==
  [op |-> "expr", call |-> callee, cargs |-> cargs, new |-> FALSE]
VarDecl(name, x) == [op |-> "var", name |-> name, x |-> x]
\* var name; without an initialiser
VarOnly(name) == [op |-> "var", name |-> name]
LetDecl(name, x) == [op |-> "let", name |-> name, x |-> x]
ConstDecl(name, x) == [op |-> "const", name |-> name, x |-> x]
\* const name = callee(cargs) and const name = new callee(cargs)
ConstCall(name, callee, cargs) ==
  [op |-> "const", name |-> name, x |-> CallResult, call |-> callee, cargs |-> cargs,
   new |-> FALSE]
ConstNew(name, callee, cargs) ==
  [op |-> "const", name |-> name, x |-> CallResult, call |-> callee, cargs |-> cargs,
   new |-> TRUE]
Assign(name, x) == [op |-> "assign", name |-> name, x |-> x]
\* base.prop = x
AssignProp(base, prop, x) == [op |-> "set", base |-> base, prop |-> prop, x |-> x]
FuncDecl(name, params, body) ==
  [op |-> "function", name |-> name, params |-> params, body |-> body, arrow |-> FALSE]
\* class name { constructor(params) { body } }
ClassDecl(name, params, body) ==
  [op |-> "class", name |-> name, params |-> params, body |-> body, arrow |-> FALSE]
Block(body) == [op |-> "block", body |-> body]
Return(x) == [op |-> "return", x |-> x]
\* An ES module of a program: a file with its statements.
Module(name, body) == [op |-> "module", name |-> name, body |-> body]
\* import { names } from "from"
Import(names, from) == [op |-> "import", names |-> names, from |-> from]
\* export const name = x
ExportConst(name, x) == [op |-> "const", name |-> name, x |-> x, export |-> TRUE]
\* base.prop++
PostInc(base, prop) == [op |-> "inc", base |-> base, prop |-> prop]
\* return ++name
ReturnInc(name) == [op |-> "returninc", name |-> name]
SetTimeout(fn, delay) == [op |-> "setTimeout", x |-> fn, delay |-> delay]
ForLoop(kind, name, init, limit, body) ==
  [op |-> "for", kind |-> kind, name |-> name, init |-> init, limit |-> limit,
   body |-> body]

-----------------------------------------------------------------------------
(* The scripts.  A nested body is written inside its statement.            *)

\* The hoisting playground.
hoisting_playground ==
  << CallStmt(Id("hoistedFunc"), <<>>),
     FuncDecl("hoistedFunc", <<>>, << Log(<<StrLit("I'm fully hoisted!")>>) >>),
     Log(<<Id("varVar")>>),
     VarDecl("varVar", StrLit("I'm a var variable")),
     LetDecl("letVar", StrLit("I'm a let variable")),
     ConstDecl("constVar", StrLit("I'm a const variable")),
     Log(<<StrLit("Entering scope...")>>),
     LetDecl("tdzVar", StrLit("I'm in TDZ")),
     Log(<<StrLit("After declaration:"), Id("tdzVar")>>),
     CallStmt(Id("myFunc"), <<>>),
     VarDecl("myFunc", StrLit("I'm a variable")),
     FuncDecl("myFunc", <<>>, << Log(<<StrLit("I'm a function!")>>) >>),
     Log(<<StrLit("After declarations, myFunc is:"), Id("myFunc")>>),
     FuncDecl("example", <<>>,
       << Block(<< VarDecl("leakedVar", StrLit("I'm leaked to function scope")) >>),
          Log(<<StrLit("leakedVar accessible:"), Id("leakedVar")>>) >>),
     FuncDecl("example2", <<>>,
       << Block(<< LetDecl("blockVar", StrLit("I'm contained in block")),
                   Log(<<StrLit("blockVar inside block:"), Id("blockVar")>>) >>) >>),
     VarDecl("shadowVar", StrLit("global")),
     FuncDecl("shadowExample", <<>>,
       << Log(<<StrLit("Before declaration:"), Id("shadowVar")>>),
          VarDecl("shadowVar", StrLit("local")),
          Log(<<StrLit("After declaration:"), Id("shadowVar")>>) >>),
     CallStmt(Id("shadowExample"), <<>>),
     FuncDecl("duplicate", <<>>, << Return(StrLit("First declaration")) >>),
     FuncDecl("duplicate", <<>>, << Return(StrLit("Second declaration wins!")) >>),
     LogCall(Id("duplicate"), <<>>, <<CallResult>>) >>

\* Code Execution Order: a zero-delay timer between two prints.
order_snippet ==
  << Log(<<StrLit("1")>>),
     SetTimeout(Arrow(<<>>, << Log(<<StrLit("2")>>) >>), 0),
     Log(<<StrLit("3")>>) >>

\* The loops with timers: one var binding, declared before the loop, 100 ms timers.
var_timers_snippet ==
  << VarOnly("i"),
     ForLoop("assign", "i", 0, 3, << SetTimeout(Arrow(<<>>, << Log(<<Id("i")>>) >>), 100) >>) >>

\* A let loop with 100 ms timers.
let_timers_snippet ==
  << ForLoop("let", "i", 0, 3, << SetTimeout(Arrow(<<>>, << Log(<<Id("i")>>) >>), 100) >>) >>

\* A var loop and then a let loop, timers without a delay.
loops_snippet ==
  << ForLoop("var", "i", 0, 3, << SetTimeout(Arrow(<<>>, << Log(<<Id("i")>>) >>), 0) >>),
     ForLoop("let", "j", 0, 3, << SetTimeout(Arrow(<<>>, << Log(<<Id("j")>>) >>), 0) >>) >>

\* Loop Scope Behavior: varLoop.
varLoop_snippet ==
  << FuncDecl("varLoop", <<>>,
       << ForLoop("var", "i", 0, 3, << SetTimeout(Arrow(<<>>, << Log(<<Id("i")>>) >>), 100) >>),
          Log(<<StrLit("After loop:"), Id("i")>>) >>),
     CallStmt(Id("varLoop"), <<>>) >>

\* The variables playground, example by example.
example_1 ==
  << Log(<<Id("a")>>),
     VarDecl("a", NumLit(5)) >>

example_2 ==
  << Log(<<Id("b")>>),
     LetDecl("b", NumLit(10)) >>

example_3 ==
  << VarDecl("x", NumLit(1)),
     Block(<< VarDecl("x", NumLit(2)),
              Log(<<Id("x")>>) >>),
     Log(<<Id("x")>>) >>

example_4 ==
  << LetDecl("y", NumLit(1)),
     Block(<< LetDecl("y", NumLit(2)),
              Log(<<Id("y")>>) >>),
     Log(<<Id("y")>>) >>

example_5 ==
  << ForLoop("var", "i", 0, 3, << SetTimeout(Arrow(<<>>, << Log(<<Id("i")>>) >>), 0) >>) >>

example_6 ==
  << ForLoop("let", "i", 0, 3, << SetTimeout(Arrow(<<>>, << Log(<<Id("i")>>) >>), 0) >>) >>

example_7 ==
  << ConstDecl("obj_1", ObjLit(<<Prop("a", NumLit(1))>>)),
     Assign("obj_1", ObjLit(<<Prop("a", NumLit(2))>>)) >>

example_8 ==
  << ConstDecl("obj", ObjLit(<<Prop("a", NumLit(1))>>)),
     AssignProp(Id("obj"), "a", NumLit(100)),
     Log(<<Member(Id("obj"), "a")>>) >>

example_9_let ==
  << LetDecl("a", NumLit(10)),
     LetDecl("a", NumLit(20)) >>

example_9_var ==
  << VarDecl("b", NumLit(10)),
     VarDecl("b", NumLit(20)),
     Log(<<Id("b")>>) >>

example_10 ==
  << CallStmt(FuncExpr(<<>>, << Log(<<TypeOf("a")>>),
                                VarDecl("a", NumLit(10)) >>), <<>>) >>

\* The variables playground as the one script it is.
variables_playground ==
  example_1 \o example_2 \o example_3 \o example_4 \o example_5 \o example_6
    \o example_7 \o example_8 \o example_9_let \o example_9_var \o example_10

\* Temporal Dead Zone questions of the README.
tdz_snippet ==
  << Log(<<Id("tdzVar")>>),
     LetDecl("tdzVar", StrLit("I'm in TDZ")) >>

tdz_block_snippet ==
  << Block(<< Log(<<Id("blockVar")>>),
              LetDecl("blockVar", StrLit("block scoped")) >>) >>

tdz_typeof_snippet ==
  << Log(<<TypeOf("undeclaredVar")>>),
     Log(<<TypeOf("declaredVar")>>),
     LetDecl("declaredVar", StrLit("I exist")) >>

\* Scope Chain and Lexical Scoping: a let that shadows an outer let.
tdz_outer_snippet ==
  << LetDecl("outer", StrLit("outer")),
     FuncDecl("test", <<>>,
       << Log(<<Id("outer")>>),
          LetDecl("outer", StrLit("inner")),
          Log(<<Id("outer")>>) >>),
     CallStmt(Id("test"), <<>>) >>

\* Function vs Variable Hoisting: typeof myFunc before and after.
myFunc_snippet ==
  << Log(<<TypeOf("myFunc")>>),
     VarDecl("myFunc", StrLit("I'm a variable")),
     FuncDecl("myFunc", <<>>, << Return(StrLit("I'm a function")) >>),
     Log(<<TypeOf("myFunc")>>) >>

\* A function expression called before its assignment.
funcExpr_snippet ==
  << CallStmt(Id("funcExpr"), <<>>),
     VarDecl("funcExpr", FuncExpr(<<>>, << Log(<<StrLit("Function expression")>>) >>)) >>

\* Function Declaration vs Expression.
funcDecl_snippet ==
  << FuncDecl("test", <<>>,
       << Log(<<TypeOf("funcDecl")>>),
          Log(<<TypeOf("funcExpr")>>),
          FuncDecl("funcDecl", <<>>, <<>>),
          VarDecl("funcExpr", FuncExpr(<<>>, <<>>)) >>),
     CallStmt(Id("test"), <<>>) >>

\* Advanced Hoisting Scenarios: one statement reading a var, a let and a
\* const before their declarations.
abc_snippet ==
  << Log(<<Id("a"), Id("b"), Id("c")>>),
     VarDecl("a", NumLit(1)),
     LetDecl("b", NumLit(2)),
     ConstDecl("c", NumLit(3)) >>

\* shadowTest: a var of a function that shadows a global var.
shadowTest_snippet ==
  << VarDecl("globalVar", StrLit("global")),
     FuncDecl("shadowTest", <<>>,
       << Log(<<Id("globalVar")>>),
          VarDecl("globalVar", StrLit("local")),
          Log(<<Id("globalVar")>>) >>),
     CallStmt(Id("shadowTest"), <<>>) >>

\* Scope Chain and Lexical Scoping: a var of a function that shadows an outer let.
shadow_outer_snippet ==
  << LetDecl("outer", StrLit("outer")),
     FuncDecl("test", <<>>,
       << Log(<<Id("outer")>>),
          VarDecl("outer", StrLit("inner")),
          Log(<<Id("outer")>>) >>),
     CallStmt(Id("test"), <<>>) >>

\* Shadowing: a let of a block that shadows an outer let.
shadowing_snippet ==
  << LetDecl("x", StrLit("outer")),
     Block(<< LetDecl("x", StrLit("inner")), Log(<<Id("x")>>) >>),
     Log(<<Id("x")>>) >>

\* Closures and Scope: a counter that closes over count, called three times.
createCounter_snippet ==
  << FuncDecl("createCounter", <<>>,
       << LetDecl("count", NumLit(0)),
          Return(FuncExpr(<<>>, << ReturnInc("count") >>)) >>),
     ConstCall("counter", Id("createCounter"), <<>>),
     LogCall(Id("counter"), <<>>, <<CallResult>>),
     LogCall(Id("counter"), <<>>, <<CallResult>>),
     LogCall(Id("counter"), <<>>, <<CallResult>>) >>

\* Basic Closure: the same counter, called twice.
outer_snippet ==
  << FuncDecl("outer", <<>>,
       << LetDecl("count", NumLit(0)),
          Return(FuncExpr(<<>>, << ReturnInc("count") >>)) >>),
     ConstCall("counter", Id("outer"), <<>>),
     LogCall(Id("counter"), <<>>, <<CallResult>>),
     LogCall(Id("counter"), <<>>, <<CallResult>>) >>

\* Circular Dependencies: a.js and b.js import each other; main.js, the
\* module that is run, imports a.js.
circular_program ==
  << Module("./a.js",
       << Import(<<"b">>, "./b.js"),
          ExportConst("a", NumLit(1)),
          Log(<<StrLit("a loaded, b ="), Id("b")>>) >>),
     Module("./b.js",
       << Import(<<"a">>, "./a.js"),
          ExportConst("b", NumLit(2)),
          Log(<<StrLit("b loaded, a ="), Id("a")>>) >>),
     Module("./main.js", << Import(<<"a">>, "./a.js") >>) >>

\* Basic Export/Import Behavior: main.js imports a name math.js does not export.
missing_export_program ==
  << Module("./math.js",
       << ExportConst("x", NumLit(1)),
          ExportConst("y", NumLit(2)) >>),
     Module("./main.js",
       << Import(<<"x", "z">>, "./math.js"),
          Log(<<Id("x")>>),
          Log(<<Id("z")>>) >>) >>

\* A method called through a reference that has lost its object.
detached_inc_snippet ==
  << ConstDecl("obj", ObjLit(<< Prop("n", NumLit(0)),
                                Prop("inc", FuncExpr(<<>>, << PostInc(This, "n") >>)) >>)),
     ConstDecl("inc", Member(Id("obj"), "inc")),
     CallStmt(Id("inc"), <<>>),
     Log(<<Member(Id("obj"), "n")>>) >>

\* An arrow function as a method.
arrow_inc_snippet ==
  << ConstDecl("obj", ObjLit(<< Prop("n", NumLit(0)),
                                Prop("inc", Arrow(<<>>, << PostInc(This, "n") >>)) >>)),
     CallStmt(Member(Id("obj"), "inc"), <<>>),
     Log(<<Member(Id("obj"), "n")>>) >>

\* The explicit binding section of the this playground, for an object o
\* (an object literal) and two attributes.
explicit_snippet(o, v1, v2) ==
  << ConstDecl("printName", FuncExpr(<<"v1", "v2">>,
       << Log(<<Template(<<StrLit("Mr. "), Member(This, "name"), StrLit(" is "),
                          Id("v1"), StrLit(" and "), Id("v2")>>)>>) >>)),
     ConstDecl("Nazmul", o),
     ConstDecl("attribute_1", StrLit(v1)),
     ConstDecl("attribute_2", StrLit(v2)),
     ConstDecl("attributes", ArrayLit(<<Id("attribute_1"), Id("attribute_2")>>)),
     CallStmt(Member(Id("printName"), "call"),
              <<Id("Nazmul"), Id("attribute_1"), Id("attribute_2")>>),
     CallStmt(Member(Id("printName"), "apply"), <<Id("Nazmul"), Id("attributes")>>),
     ConstCall("printNameBind", Member(Id("printName"), "bind"), <<Id("Nazmul")>>),
     CallStmt(Id("printNameBind"), <<Id("attribute_1"), Id("attribute_2")>>) >>

\* The objects and attributes the section is run with.
ExplicitCases ==
  [explicit_1 |-> [o |-> ObjLit(<< Prop("name", StrLit("Nazmul")), Prop("age", NumLit(25)) >>),
                   v1 |-> "Handome", v2 |-> "Smart"],
   explicit_2 |-> [o |-> ObjLit(<< Prop("name", StrLit("Nazmul")), Prop("age", NumLit(25)) >>),
                   v1 |-> "Smart", v2 |-> "Smart"],
   explicit_3 |-> [o |-> ObjLit(<< Prop("name", StrLit("Sakib")) >>),
                   v1 |-> "Handome", v2 |-> "Smart"],
   explicit_4 |-> [o |-> ObjLit(<< Prop("name", StrLit("Sakib")) >>),
                   v1 |-> "Smart", v2 |-> "Handome"],
   explicit_5 |-> [o |-> ObjLit(<< Prop("age", NumLit(25)) >>),
                   v1 |-> "Handome", v2 |-> "Smart"],
   explicit_6 |-> [o |-> ObjLit(<<>>), v1 |-> "Smart", v2 |-> ""]]

\* The this playground: implicit, explicit, new and window binding.
playground_this ==
  << ConstDecl("person",
       ObjLit(<< Prop("name", StrLit("John")),
                 Prop("greet", FuncExpr(<<>>,
                   << Log(<<Template(<<StrLit("Hello, "), Member(This, "name")>>)>>) >>)) >>)),
     CallStmt(Member(Id("person"), "greet"), <<>>),
     ConstDecl("printPlayerNameFunction", FuncExpr(<<"obj">>,
       << AssignProp(Id("obj"), "printPlayerName",
            FuncExpr(<<>>, << Log(<<Member(This, "name")>>) >>)) >>)),
     ConstDecl("sakib", ObjLit(<< Prop("name", StrLit("Sakib")) >>)),
     ConstDecl("tamim", ObjLit(<< Prop("name", StrLit("Tamim")) >>)),
     CallStmt(Id("printPlayerNameFunction"), <<Id("sakib")>>),
     CallStmt(Id("printPlayerNameFunction"), <<Id("tamim")>>),
     CallStmt(Member(Id("sakib"), "printPlayerName"), <<>>),
     CallStmt(Member(Id("tamim"), "printPlayerName"), <<>>),
     ConstDecl("Person_3", FuncExpr(<<"name", "age">>,
       << Return(ObjLit(
            << Prop("name", Id("name")),
               Prop("age", Id("age")),
               Prop("printName", FuncExpr(<<>>, << Log(<<Member(This, "name")>>) >>)),
               Prop("father", ObjLit(
                 << Prop("name", StrLit("John")),
                    Prop("printName",
                         FuncExpr(<<>>, << Log(<<Member(This, "name")>>) >>)) >>)) >>)) >>)),
     ConstCall("mahadi", Id("Person_3"), <<StrLit("Mahadi"), NumLit(20)>>),
     CallStmt(Member(Id("mahadi"), "printName"), <<>>),
     CallStmt(Member(Member(Id("mahadi"), "father"), "printName"), <<>>),
     ConstDecl("printName", FuncExpr(<<"v1", "v2">>,
       << Log(<<Template(<<StrLit("Mr. "), Member(This, "name"), StrLit(" is "),
                          Id("v1"), StrLit(" and "), Id("v2")>>)>>) >>)),
     ConstDecl("Nazmul", ObjLit(<< Prop("name", StrLit("Nazmul")),
                                   Prop("age", NumLit(25)) >>)),
     ConstDecl("attribute_1", StrLit("Handome")),
     ConstDecl("attribute_2", StrLit("Smart")),
     ConstDecl("attributes", ArrayLit(<<Id("attribute_1"), Id("attribute_2")>>)),
     CallStmt(Member(Id("printName"), "call"),
              <<Id("Nazmul"), Id("attribute_1"), Id("attribute_2")>>),
     CallStmt(Member(Id("printName"), "apply"), <<Id("Nazmul"), Id("attributes")>>),
     ConstCall("printNameBind", Member(Id("printName"), "bind"), <<Id("Nazmul")>>),
     CallStmt(Id("printNameBind"), <<Id("attribute_1"), Id("attribute_2")>>),
     FuncDecl("Employee", <<"name", "profession">>,
       << AssignProp(This, "name", Id("name")),
          AssignProp(This, "profession", Id("profession")) >>),
     ConstNew("employee1", Id("Employee"),
              <<StrLit("Nazmul"), StrLit("Software Engineer")>>),
     Log(<<Id("employee1")>>),
     ConstDecl("windowPrintName", FuncExpr(<<>>, << Log(<<Member(This, "name")>>) >>)),
     ConstDecl("windowSakib", ObjLit(<< Prop("name", StrLit("Sakib")) >>)),
     CallStmt(Id("windowPrintName"), <<>>) >>

\* The basic objects script, up to the destructuring section.
objects_basic ==
  << Log(<<StrLit("date=>"), Native("new Date()", <<>>)>>),
     Log(<<StrLit("toISOString=>"), Native("toISOString", <<>>)>>),
     Log(<<StrLit("toLocaleString=>"), Native("toLocaleString", <<>>)>>),
     Log(<<StrLit("toLocaleDateString=>"), Native("toLocaleDateString", <<>>)>>),
     Log(<<StrLit("toLocaleTimeString=>"), Native("toLocaleTimeString", <<>>)>>),
     ConstDecl("person", ObjLit(<< Prop("name", StrLit("John")),
                                   Prop("age", NumLit(30)),
                                   Prop("city", StrLit("New York")) >>)),
     ConstDecl("person_2", Native("Object",
       << ObjLit(<< Prop("name", StrLit("john_2")),
                    Prop("age", NumLit(20)),
                    Prop("city", StrLit("New York_2")) >>) >>)),
     ConstDecl("fruits", ArrayLit(
       << ArrayLit(<<StrLit("apples"), NumLit(300)>>),
          ArrayLit(<<StrLit("pears"), NumLit(900)>>),
          ArrayLit(<<StrLit("bananas"), NumLit(500)>>) >>)),
     ConstDecl("fruitsData", Native("Object.fromEntries", <<Id("fruits")>>)),
     ConstDecl("fruitsDataRevert", Native("Object.entries", <<Id("fruitsData")>>)),
     ConstDecl("consPerson", Native("Object", <<>>)),
     AssignProp(Id("person"), "name", StrLit("Mahadi")),
     ClassDecl("Employee", <<"name", "position">>,
       << AssignProp(This, "name", Id("name")),
          AssignProp(This, "position", Id("position")) >>),
     ConstNew("employee1", Id("Employee"),
              <<StrLit("Nazmul"), StrLit("Software Engineer")>>),
     Log(<<Id("employee1")>>),
     ConstDecl("con_data", ObjLit(<< Prop("firstName", StrLit("Nazmul")),
                                     Prop("lastName", StrLit("Mahadi")),
                                     Prop("age", NumLit(25)),
                                     Prop("city", StrLit("Dhaka")) >>)),
     ConstDecl("firstName", Member(Id("con_data"), "firstName")),
     ConstDecl("lastName", Member(Id("con_data"), "lastName")),
     ConstDecl("age", Member(Id("con_data"), "age")),
     ConstDecl("city", Member(Id("con_data"), "city")),
     ConstDecl("country", Default(Member(Id("con_data"), "country"), StrLit("US"))),
     Log(<<Id("firstName"), Id("lastName"), Id("age"), Id("city")>>),
     ConstDecl("lName", Member(Id("con_data"), "lastName")),
     Log(<<StrLit("country"), Id("country"), Id("lName")>>) >>

\* The script of each name.
Script(name) ==
  CASE name = "hoisting" -> hoisting_playground
    [] name = "order" -> order_snippet
    [] name = "var_timers" -> var_timers_snippet
    [] name = "let_timers" -> let_timers_snippet
    [] name = "loops" -> loops_snippet
    [] name = "varLoop" -> varLoop_snippet
    [] name = "variables" -> variables_playground
    [] name = "this" -> playground_this
    [] name = "objects" -> objects_basic
    [] name = "example_1" -> example_1
    [] name = "example_2" -> example_2
    [] name = "example_3" -> example_3
    [] name = "example_4" -> example_4
    [] name = "example_5" -> example_5
    [] name = "example_6" -> example_6
    [] name = "example_7" -> example_7
    [] name = "example_8" -> example_8
    [] name = "example_9_let" -> example_9_let
    [] name = "example_9_var" -> example_9_var
    [] name = "example_10" -> example_10
    [] name = "tdz" -> tdz_snippet
    [] name = "tdz_block" -> tdz_block_snippet
    [] name = "tdz_typeof" -> tdz_typeof_snippet
    [] name = "tdz_outer" -> tdz_outer_snippet
    [] name = "myFunc" -> myFunc_snippet
    [] name = "funcExpr" -> funcExpr_snippet
    [] name = "funcDecl" -> funcDecl_snippet
    [] name \in DOMAIN ExplicitCases ->
         explicit_snippet(ExplicitCases[name].o, ExplicitCases[name].v1,
                          ExplicitCases[name].v2)
    [] name = "arrow_inc" -> arrow_inc_snippet
    [] name = "detached_inc" -> detached_inc_snippet
    [] name = "missing_export" -> missing_export_program
    [] name = "circular" -> circular_program
    [] name = "outer" -> outer_snippet
    [] name = "counter" -> createCounter_snippet
    [] name = "shadowing" -> shadowing_snippet
    [] name = "shadow_outer" -> shadow_outer_snippet
    [] name = "shadowTest" -> shadowTest_snippet
    [] name = "abc" -> abc_snippet

\* The sessions: the scripts run one after another, each in its own process.
Snippets ==
  {"hoisting", "order", "var_timers", "let_timers", "loops", "varLoop", "variables",
   "example_1", "example_2", "example_3", "example_4", "example_5", "example_6",
   "example_7", "example_8", "example_9_let", "example_9_var", "example_10",
   "tdz", "tdz_block", "tdz_typeof", "tdz_outer", "myFunc", "funcExpr", "funcDecl",
   "abc",
   "shadowTest",
   "shadow_outer",
   "shadowing",
   "counter",
   "outer",
   "circular",
   "missing_export",
   "detached_inc",
   "arrow_inc"}
\* The scripts that declare the same top-level names.
Files == {"this", "objects"}
\* The sessions: one snippet or file, or two files one after the other.
Sessions ==
  { <<s>> : s \in Snippets \cup DOMAIN ExplicitCases \cup Files }
    \cup { <<s1, s2>> : s1 \in Files, s2 \in Files }

-----------------------------------------------------------------------------
(* Static semantics: declared names and early errors.                      *)

Min(S) == CHOOSE m \in S : \A k \in S : m <= k
Last(seq) == seq[Len(seq)]
Front(seq) == SubSeq(seq, 1, Len(seq) - 1)

RECURSIVE Flatten(_)
Flatten(seqs) == IF seqs = <<>> THEN <<>> ELSE Head(seqs) \o Flatten(Tail(seqs))

\* The function bodies written in expression x.
RECURSIVE ExprBodies(_)
ExprBodies(x) ==
  CASE x.e = "func" -> <<x.body>>
    [] x.e = "obj" -> Flatten([i \in DOMAIN x.props |-> ExprBodies(x.props[i].x)])
    [] x.e = "member" -> ExprBodies(x.x)
    [] OTHER -> <<>>

\* The bodies nested in statement s: of a block, a loop or a function.
NestedBodies(s) ==
  (IF "body" \in DOMAIN s THEN <<s.body>> ELSE <<>>)
    \o (IF "x" \in DOMAIN s THEN ExprBodies(s.x) ELSE <<>>)
    \o (IF "call" \in DOMAIN s THEN ExprBodies(s.call) ELSE <<>>)

\* VarDeclaredNames: var declarations of a body, nested blocks and loops
\* included, nested functions excluded.
RECURSIVE VarNames(_)
VarNames(body) ==
  UNION { LET s == body[i] IN
          CASE s.op = "var" -> {s.name}
            [] s.op = "block" -> VarNames(s.body)
            [] s.op = "for" ->
                 (IF s.kind = "var" THEN {s.name} ELSE {}) \cup VarNames(s.body)
            [] OTHER -> {}
        : i \in DOMAIN body }

\* The functions of a body whose name no var of the body declares.
FuncNamesUnlessVar(body) ==
  { body[i].name : i \in { j \in DOMAIN body : body[j].op = "function" } } \ VarNames(body)

\* Function declarations at the top level of a function or script body.
TopFuncNames(body) ==
  { body[i].name : i \in { j \in DOMAIN body : body[j].op = "function" } }

\* LexicallyDeclaredNames: let, const and class declarations directly in a body.
IsLexical(s) == s.op \in {"let", "const", "class"}
LexNames(body) == { body[i].name : i \in { j \in DOMAIN body : IsLexical(body[j]) } }

\* The names statement i of a body declares: lexically, or var-scoped.
DeclaredAt(body, i) ==
  LET s == body[i] IN
  [lex |-> IF IsLexical(s) THEN {s.name} ELSE {},
   var |-> VarNames(<<s>>) \cup (IF s.op = "function" THEN {s.name} ELSE {})]

\* The names statement i redeclares: a lexical name declared before in any
\* way, or a var name declared lexically before.
Conflicts(body, i) ==
  LET lexBefore == UNION { DeclaredAt(body, j).lex : j \in 1..(i - 1) }
      varBefore == UNION { DeclaredAt(body, j).var : j \in 1..(i - 1) }
  IN (DeclaredAt(body, i).lex \cap (lexBefore \cup varBefore))
       \cup (DeclaredAt(body, i).var \cap lexBefore)

Redeclared(body) == { i \in DOMAIN body : Conflicts(body, i) # {} }

RedeclaredName(body) == CHOOSE n \in Conflicts(body, Min(Redeclared(body))) : TRUE

\* The early error of a body or of a body nested in it, "" when there is none.
RECURSIVE EarlyError(_)
EarlyError(body) ==
  IF Redeclared(body) # {}
  THEN "SyntaxError: Identifier '" \o RedeclaredName(body) \o "' has already been declared"
  ELSE LET nested == Flatten([i \in DOMAIN body |-> NestedBodies(body[i])])
           bad == { i \in DOMAIN nested : EarlyError(nested[i]) # "" }
       IN IF bad = {} THEN "" ELSE EarlyError(nested[Min(bad)])

-----------------------------------------------------------------------------
(* Places in a script.  A path leads from the script to a node of its      *)
(* syntax: a positive step is an index, a step -k is the k-th field.       *)

Fields == <<"body", "x", "call", "props", "cargs", "args", "parts", "base", "d">>
In(path, field) == Append(path, 0 - (CHOOSE k \in DOMAIN Fields : Fields[k] = field))

RECURSIVE NodeOf(_, _)
NodeOf(root, path) ==
  IF path = <<>> THEN root
  ELSE LET parent == NodeOf(root, Front(path))
           step == Last(path)
       IN IF step > 0 THEN parent[step] ELSE parent[Fields[0 - step]]

\* The statements of the body at path, in the script being run.
Body(path) == NodeOf(Script(script), path)
\* The function whose body is at path: it has the parameters.
FuncNode(path) == NodeOf(Script(script), Front(path))

-----------------------------------------------------------------------------
(* Scopes, objects and expressions.                                        *)

Var(v) == [kind |-> "var", init |-> TRUE, val |-> v]
\* A let or const binding before its declaration has run: the dead zone.
Uninitialised(kind) == [kind |-> kind, init |-> FALSE, val |-> Undef]

LexKind(body, n) ==
  body[CHOOSE j \in DOMAIN body : IsLexical(body[j]) /\ body[j].name = n].op

\* The first declaration of function n in a body.
FirstDecl(body, n) ==
  CHOOSE j \in DOMAIN body :
    /\ body[j].op = "function" /\ body[j].name = n
    /\ \A k \in DOMAIN body : (body[k].op = "function" /\ body[k].name = n) => j <= k

\* The declaration of function n that is hoisted: the last one in the body.
HoistedDecl(body, n) ==
  CHOOSE j \in DOMAIN body :
    /\ body[j].op = "function" /\ body[j].name = n
    /\ \A k \in DOMAIN body : (body[k].op = "function" /\ body[k].name = n) => k <= j

\* The bindings of a body in which a var has a dead zone like a let.
HoistDeadVars(body, path, env, params, args) ==
  LET ps == { params[i] : i \in DOMAIN params }
      names == ps \cup VarNames(body) \cup TopFuncNames(body) \cup LexNames(body)
  IN [n \in names |->
        IF n \in LexNames(body) THEN Uninitialised(LexKind(body, n))
        ELSE IF n \in TopFuncNames(body)
          THEN Var(Fun(n, In(Append(path, HoistedDecl(body, n)), "body"), env))
        ELSE IF n \in ps
          THEN LET i == CHOOSE k \in DOMAIN params : params[k] = n
               IN Var(IF i \in DOMAIN args THEN args[i] ELSE Undef)
        ELSE Uninitialised("var")]

\* The bindings a function (or script) body, written at path, starts with in
\* scope env.
HoistFunction(body, path, env, params, args) ==
  LET ps == { params[i] : i \in DOMAIN params }
      names == ps \cup VarNames(body) \cup TopFuncNames(body) \cup LexNames(body)
  IN [n \in names |->
        IF n \in LexNames(body) THEN Uninitialised(LexKind(body, n))
        ELSE IF n \in TopFuncNames(body)
          THEN Var(Fun(n, In(Append(path, HoistedDecl(body, n)), "body"), env))
        ELSE IF n \in ps
          THEN LET i == CHOOSE k \in DOMAIN params : params[k] = n
               IN Var(IF i \in DOMAIN args THEN args[i] ELSE Undef)
        ELSE Var(Undef)]

\* The bindings of a block that also holds the vars declared in it.
HoistBlockWithVars(path) ==
  LET body == Body(path) IN
  [n \in LexNames(body) \cup VarNames(body) |->
     IF n \in LexNames(body) THEN Uninitialised(LexKind(body, n)) ELSE Var(Undef)]

\* The bindings a block starts with: its let and const names, uninitialised.
HoistBlock(path) ==
  LET body == Body(path) IN [n \in LexNames(body) |-> Uninitialised(LexKind(body, n))]

\* The nearest scope from env outwards that binds name, 0 when none does.
RECURSIVE Resolve(_, _)
Resolve(name, env) ==
  IF env = 0 THEN 0
  ELSE IF name \in DOMAIN scopes[env].b THEN env
  ELSE Resolve(name, scopes[env].parent)

\* this: that of the nearest function scope that is not an arrow function's.
RECURSIVE ThisOf(_)
ThisOf(env) ==
  IF env = 0 THEN Undef
  ELSE IF scopes[env].fn THEN scopes[env].this
  ELSE ThisOf(scopes[env].parent)

NewObject(cls) == [cls |-> cls, proto |-> 0, keys |-> <<>>, vals |-> << >>]

\* Reading property k of object id: its own, or else its prototype's.
RECURSIVE GetProp(_, _, _)
GetProp(h, id, k) ==
  IF id = 0 THEN Undef
  ELSE IF k \in DOMAIN h[id].vals THEN h[id].vals[k]
  ELSE GetProp(h, h[id].proto, k)

\* The heap with own property k of object id set to v.
PutProp(h, id, k, v) ==
  LET o == h[id] IN
  [h EXCEPT ![id] = [cls |-> o.cls, proto |-> o.proto,
                     keys |-> IF k \in DOMAIN o.vals THEN o.keys ELSE Append(o.keys, k),
                     vals |-> (k :> v) @@ o.vals]]

\* An array of the values vs: an object with the keys "0", "1", ...
ArrayOf(vs) ==
  [cls |-> "Array", proto |-> 0,
   keys |-> [i \in DOMAIN vs |-> NumStr(i - 1)],
   vals |-> [k \in { NumStr(i - 1) : i \in DOMAIN vs } |->
               vs[CHOOSE i \in DOMAIN vs : NumStr(i - 1) = k]]]

\* The own property values of object id, in the order of its keys.
Elements(h, id) == [i \in DOMAIN h[id].keys |-> h[id].vals[h[id].keys[i]]]

\* Object.fromEntries: the pairs [k, v] put on object id, from the i-th on.
RECURSIVE FromEntries(_, _, _, _)
FromEntries(h, pairs, i, id) ==
  IF i > Len(pairs) THEN h
  ELSE LET kv == Elements(h, pairs[i].n) IN
       FromEntries(PutProp(h, id, kv[1].s, kv[2]), pairs, i + 1, id)

\* Object.entries: the heap with one array [k, v] per own property of
\* object id added, from the i-th on.
RECURSIVE Entries(_, _, _)
Entries(h, id, i) ==
  IF i > Len(h[id].keys) THEN h
  ELSE Entries(Append(h, ArrayOf(<<Str(h[id].keys[i]), h[id].vals[h[id].keys[i]]>>)),
               id, i + 1)

\* The text a Date of the current instant is printed as.
DateText(method, t) == "<" \o method \o " at " \o NumStr(t) \o ">"

Ok(v, h) == [err |-> "", v |-> v, h |-> h]
Err(msg, h) == [err |-> msg, v |-> Undef, h |-> h]

\* Reading an identifier with no dead zone: a binding whose declaration has
\* not run reads as undefined.
LooseLookup(name, env) ==
  LET sc == Resolve(name, env) IN
  IF sc = 0 THEN [err |-> "ReferenceError: " \o name \o " is not defined", v |-> Undef]
  ELSE IF scopes[sc].b[name].kind = "import"
    THEN [err |-> "", v |-> scopes[scopes[sc].b[name].val.n].b[scopes[sc].b[name].val.s].val]
  ELSE [err |-> "", v |-> scopes[sc].b[name].val]

\* Reading an identifier.
Lookup(name, env) ==
  LET sc == Resolve(name, env) IN
  IF sc = 0 THEN [err |-> "ReferenceError: " \o name \o " is not defined", v |-> Undef]
  ELSE IF scopes[sc].b[name].kind = "import"
    THEN \* a live binding: the read is of the exporting module's binding
         LET to == scopes[scopes[sc].b[name].val.n].b[scopes[sc].b[name].val.s] IN
         IF ~to.init
         THEN [err |-> "ReferenceError: Cannot access '" \o name \o "' before initialization",
               v |-> Undef]
         ELSE [err |-> "", v |-> to.val]
  ELSE IF ~scopes[sc].b[name].init
    THEN [err |-> "ReferenceError: Cannot access '" \o name \o "' before initialization",
          v |-> Undef]
  ELSE [err |-> "", v |-> scopes[sc].b[name].val]

\* typeof of an identifier: an undeclared name gives "undefined".
TypeOfName(name, env) ==
  IF Resolve(name, env) = 0 THEN [err |-> "", v |-> Str("undefined")]
  ELSE LET r == Lookup(name, env) IN
       IF r.err # "" THEN r ELSE [err |-> "", v |-> Str(r.v.t)]

\* The source text of a callee or base, for error messages.
RECURSIVE TextOf(_)
TextOf(x) ==
  CASE x.e = "id" -> x.name
    [] x.e = "this" -> "this"
    [] x.e = "member" -> TextOf(x.x) \o "." \o x.prop
    [] OTHER -> "(intermediate value)"

RECURSIVE JoinText(_)
JoinText(vs) == IF vs = <<>> THEN "" ELSE ToText(Head(vs)) \o JoinText(Tail(vs))

\* The value of expression x, written at path at, in frame f with heap h:
\* [err, v, h].  name is the name a function expression gets.
RECURSIVE Eval(_, _, _, _, _)
RECURSIVE EvalProps(_, _, _, _, _, _)
RECURSIVE EvalSeq(_, _, _, _, _, _)
Eval(x, at, f, name, h) ==
  CASE x.e = "lit" -> Ok(x.v, h)
    [] x.e = "id" -> LET r == Lookup(x.name, f.env) IN [err |-> r.err, v |-> r.v, h |-> h]
    [] x.e = "typeof" ->
         LET r == TypeOfName(x.name, f.env) IN [err |-> r.err, v |-> r.v, h |-> h]
    [] x.e = "this" -> Ok(ThisOf(f.env), h)
    [] x.e = "ret" -> Ok(f.ret, h)
    [] x.e = "func" -> Ok(Fun(name, In(at, "body"), f.env), h)
    [] x.e = "obj" ->
         EvalProps(x.props, 1, In(at, "props"), f, Append(h, NewObject("")), Len(h) + 1)
    [] x.e = "member" ->
         LET r == Eval(x.x, In(at, "x"), f, "", h) IN
         IF r.err # "" THEN r
         ELSE IF r.v.t = "undefined"
           THEN Err("TypeError: Cannot read properties of undefined (reading '"
                      \o x.prop \o "')", r.h)
         ELSE IF r.v.t = "object" THEN Ok(GetProp(r.h, r.v.n, x.prop), r.h)
         ELSE Ok(Undef, r.h)
    [] x.e = "template" ->
         LET r == EvalSeq(x.parts, 1, In(at, "parts"), f, h, <<>>) IN
         IF r.err # "" THEN Err(r.err, r.h) ELSE Ok(Str(JoinText(r.vs)), r.h)
    [] x.e = "array" ->
         LET r == EvalSeq(x.args, 1, In(at, "args"), f, h, <<>>) IN
         IF r.err # "" THEN Err(r.err, r.h)
         ELSE Ok(Obj(Len(r.h) + 1), Append(r.h, ArrayOf(r.vs)))
    [] x.e = "default" ->
         LET r == Eval(x.x, In(at, "x"), f, name, h) IN
         IF r.err = "" /\ r.v = Undef THEN Eval(x.d, In(at, "d"), f, name, r.h) ELSE r
    [] x.e = "native" ->
         LET r == EvalSeq(x.args, 1, In(at, "args"), f, h, <<>>) IN
         IF r.err # "" THEN Err(r.err, r.h)
         ELSE CASE x.name \in {"new Date()", "toISOString", "toLocaleString",
                              "toLocaleDateString", "toLocaleTimeString"} ->
                     Ok(Str(DateText(x.name, now)), r.h)
                [] x.name = "Object" ->
                     IF r.vs # <<>> /\ r.vs[1].t = "object" THEN Ok(r.vs[1], r.h)
                     ELSE Ok(Obj(Len(r.h) + 1), Append(r.h, NewObject("")))
                [] x.name = "Object.fromEntries" ->
                     Ok(Obj(Len(r.h) + 1),
                        FromEntries(Append(r.h, NewObject("")), Elements(r.h, r.vs[1].n),
                                    1, Len(r.h) + 1))
                [] x.name = "Object.entries" ->
                     LET n == Len(r.h[r.vs[1].n].keys)
                         h2 == Entries(r.h, r.vs[1].n, 1)
                     IN Ok(Obj(Len(h2) + 1),
                           Append(h2, ArrayOf([i \in 1..n |-> Obj(Len(r.h) + i)])))

\* The properties of an object literal, in order, put on object id.
EvalProps(props, i, at, f, h, id) ==
  IF i > Len(props) THEN Ok(Obj(id), h)
  ELSE LET r == Eval(props[i].x, In(Append(at, i), "x"), f, props[i].k, h) IN
       IF r.err # "" THEN r
       ELSE EvalProps(props, i + 1, at, f, PutProp(r.h, id, props[i].k, r.v), id)

\* The values of the expressions xs from the i-th on, left to right, or the
\* first error: [err, vs, h].
EvalSeq(xs, i, at, f, h, acc) ==
  IF i > Len(xs) THEN [err |-> "", vs |-> acc, h |-> h]
  ELSE LET r == Eval(xs[i], Append(at, i), f, "", h) IN
       IF r.err # "" THEN [err |-> r.err, vs |-> <<>>, h |-> r.h]
       ELSE EvalSeq(xs, i + 1, at, f, r.h, Append(acc, r.v))

-----------------------------------------------------------------------------
(* The evaluator.                                                          *)

Frame(path, env, kind) ==
  [path |-> path, pc |-> 1, env |-> env, kind |-> kind, called |-> FALSE,
   ret |-> Undef, phase |-> "", iter |-> 0, self |-> Undef]

Top == stack[Len(stack)]
Cur == Body(Top.path)[Top.pc]
\* The path of the statement being run.
At == Append(Top.path, Top.pc)
Running == error = "" /\ stack # <<>>
AtEnd == Running /\ Top.pc > Len(Body(Top.path))
\* The top frame is at a statement of kind op whose call, if it makes one,
\* has returned.
AtStmt(op) ==
  /\ Running /\ Top.pc <= Len(Body(Top.path))
  /\ Cur.op = op
  /\ ("call" \in DOMAIN Cur) => Top.called

\* The stack with the top frame moved to its next statement.
Advanced == [stack EXCEPT ![Len(stack)] = [@ EXCEPT !.pc = @ + 1, !.called = FALSE]]
\* An uncaught exception unwinds every frame.
Throw(msg) == error' = msg /\ stack' = <<>>
\* The scopes with name bound to value v in scope sc.
Bound(sc, name, v) ==
  [scopes EXCEPT ![sc].b[name] = [@ EXCEPT !.init = TRUE, !.val = v]]

Scope(parent, b, fn, this) == [parent |-> parent, b |-> b, fn |-> fn, this |-> this]

\* A process starts with the global scope, scope 1, and two objects: the
\* global object, object 1, and the module's exports, object 2.
StartScopes == << Scope(0, << >>, TRUE, Obj(1)) >>
StartHeap == << NewObject(""), NewObject("") >>

\* A program of ES modules; the module that is run is written last.
IsProgram(root) == root # <<>> /\ root[1].op = "module"
ModuleAt(root, name) == CHOOSE i \in DOMAIN root : root[i].name = name
\* The names a module exports.
Exports(body) == { body[j].name : j \in { k \in DOMAIN body : "export" \in DOMAIN body[k] } }
\* The imports no module provides: <<module, name>>.
Missing(root) ==
  UNION { UNION { { <<root[i].body[j].from, root[i].body[j].names[k]>> :
                      k \in { n \in DOMAIN root[i].body[j].names :
                                root[i].body[j].names[n]
                                  \notin Exports(root[ModuleAt(root, root[i].body[j].from)].body) } }
                  : j \in { s \in DOMAIN root[i].body : root[i].body[s].op = "import" } }
          : i \in DOMAIN root }
\* The modules a module requests, in the order of its import statements.
Requested(root, i) ==
  LET imps == SelectSeq(root[i].body, LAMBDA s : s.op = "import")
  IN [k \in DOMAIN imps |-> ModuleAt(root, imps[k].from)]
\* The order in which the modules todo and the modules they request are
\* evaluated: a module after the modules it requests, except those already
\* requested (a cycle).
RECURSIVE Evaluation(_, _, _)
Evaluation(root, todo, seen) ==
  IF todo = <<>> THEN [order |-> <<>>, seen |-> seen]
  ELSE IF Head(todo) \in seen THEN Evaluation(root, Tail(todo), seen)
  ELSE LET inner == Evaluation(root, Requested(root, Head(todo)), seen \cup {Head(todo)})
           rest == Evaluation(root, Tail(todo), inner.seen)
       IN [order |-> inner.order \o <<Head(todo)>> \o rest.order, seen |-> rest.seen]
\* The scope of module i, scope 1 + i: its own declarations, hoisted, and a
\* live binding for each imported name.
ModuleScope(root, i) ==
  LET imps == { j \in DOMAIN root[i].body : root[i].body[j].op = "import" }
      names == UNION { { root[i].body[j].names[k] : k \in DOMAIN root[i].body[j].names }
                       : j \in imps }
      from(n) == root[i].body[CHOOSE j \in imps :
                                \E k \in DOMAIN root[i].body[j].names :
                                  root[i].body[j].names[k] = n].from
  IN Scope(1,
           [n \in names |->
              [kind |-> "import", init |-> TRUE,
               val |-> [t |-> "import", n |-> 1 + ModuleAt(root, from(n)), s |-> n,
                        body |-> <<>>]]]
             @@ HoistFunction(root[i].body, In(<<i>>, "body"), 1 + i, <<>>, <<>>),
           TRUE, Undef)

\* node main.js for a program of ES modules: the modules are linked, which
\* fails when an imported name is not exported, and then evaluated, each
\* once, the requested before the requesting.
LoadModules ==
  /\ script = "" /\ queue # <<>> /\ IsProgram(Script(Head(queue)))
  /\ script' = Head(queue) /\ queue' = Tail(queue)
  /\ \E root \in { Script(Head(queue)) } :
     \E missing \in { Missing(root) } :
        IF EarlyError(root) # ""
        THEN error' = EarlyError(root) /\ stack' = <<>> /\ scopes' = StartScopes
        ELSE IF missing # {}
        THEN /\ error' = LET m == CHOOSE x \in missing : TRUE IN
                         "SyntaxError: The requested module '" \o m[1]
                           \o "' does not provide an export named '" \o m[2] \o "'"
             /\ stack' = <<>> /\ scopes' = StartScopes
        ELSE \E order \in { Evaluation(root, <<Len(root)>>, {}).order } :
             /\ scopes' = StartScopes \o [i \in DOMAIN root |-> ModuleScope(root, i)]
             /\ stack' = [k \in DOMAIN order |->
                            Frame(In(<<order[Len(order) + 1 - k]>>, "body"),
                                  1 + order[Len(order) + 1 - k], "script")]
             /\ UNCHANGED error
  /\ heap' = StartHeap
  /\ timers' = <<>> /\ now' = 0 /\ out' = <<>>
  /\ UNCHANGED finished
  /\ UNCHANGED lab

\* Scripts loaded one after the other into one realm, as classic scripts of
\* one page are: the top-level scope and the objects of the earlier scripts
\* stay, and a let, const or class of an earlier script cannot be declared
\* again.
SharedLoad ==
  /\ script = "" /\ queue # <<>> /\ ~IsProgram(Script(Head(queue)))
  /\ script' = Head(queue) /\ queue' = Tail(queue)
  /\ \E body \in { Script(Head(queue)) } :
     \E seen \in { IF Len(scopes) < 2 THEN {} ELSE DOMAIN scopes[2].b } :
        IF EarlyError(body) # "" \/ seen \cap LexNames(body) # {}
        THEN /\ error' = "SyntaxError: Identifier has already been declared"
             /\ stack' = <<>> /\ UNCHANGED <<scopes, heap>>
        ELSE /\ scopes' = IF Len(scopes) < 2
                          THEN Append(StartScopes,
                                 Scope(1, HoistFunction(body, <<>>, 2, <<>>, <<>>), TRUE, Obj(2)))
                          ELSE [scopes EXCEPT ![2].b = HoistFunction(body, <<>>, 2, <<>>, <<>>) @@ @]
             /\ heap' = IF heap = <<>> THEN StartHeap ELSE heap
             /\ stack' = << Frame(<<>>, 2, "script") >>
             /\ UNCHANGED error
  /\ timers' = <<>> /\ now' = 0 /\ out' = <<>>
  /\ UNCHANGED finished
  /\ UNCHANGED lab

\* node <script>: a new process parses the next script of the session.  An
\* early error ends it before any statement runs; otherwise the body starts
\* in a module scope of its own below the global scope.
Load ==
  /\ script = "" /\ queue # <<>> /\ ~IsProgram(Script(Head(queue)))
  /\ script' = Head(queue) /\ queue' = Tail(queue)
  /\ \E body \in { Script(Head(queue)) } :
     \E early \in { EarlyError(body) } :
        IF early # ""
        THEN error' = early /\ stack' = <<>> /\ scopes' = StartScopes
        ELSE /\ scopes' = Append(StartScopes,
                    Scope(1, HoistFunction(body, <<>>, Len(StartScopes) + 1, <<>>, <<>>),
                          TRUE, Obj(2)))
             /\ stack' = << Frame(<<>>, Len(StartScopes) + 1, "script") >>
             /\ UNCHANGED error
  /\ heap' = StartHeap
  /\ timers' = <<>> /\ now' = 0 /\ out' = <<>>
  /\ UNCHANGED finished
  /\ UNCHANGED lab

\* console.log(...)
ExecLog ==
  /\ AtStmt("log")
  /\ \E r \in { EvalSeq(Cur.args, 1, In(At, "args"), Top, heap, <<>>) } :
     IF r.err # "" THEN Throw(r.err) /\ UNCHANGED <<out, heap>>
     ELSE /\ out' = Append(out, JoinArgs(r.vs, r.h))
          /\ heap' = r.h /\ stack' = Advanced /\ UNCHANGED error
  /\ UNCHANGED <<queue, script, scopes, timers, now, finished>>
  /\ UNCHANGED lab

\* var name = x: assigns the hoisted binding.  var name; does nothing.
ExecVar ==
  /\ AtStmt("var")
  /\ IF "x" \notin DOMAIN Cur
     THEN stack' = Advanced /\ UNCHANGED <<scopes, heap, error>>
     ELSE \E r \in { Eval(Cur.x, In(At, "x"), Top, Cur.name, heap) } :
          IF r.err # "" THEN Throw(r.err) /\ UNCHANGED <<scopes, heap>>
          ELSE /\ scopes' = Bound(Resolve(Cur.name, Top.env), Cur.name, r.v)
               /\ heap' = r.h /\ stack' = Advanced /\ UNCHANGED error
  /\ UNCHANGED <<queue, script, timers, now, out, finished>>
  /\ UNCHANGED lab

\* let name = x, const name = x, class name {...}: initialises the binding
\* of the current scope.
ExecLexical ==
  /\ Running /\ Top.pc <= Len(Body(Top.path)) /\ IsLexical(Cur)
  /\ ("call" \in DOMAIN Cur) => Top.called
  /\ \E r \in { IF Cur.op = "class"
                 THEN Ok(Fun(Cur.name, In(At, "body"), Top.env), heap)
                 ELSE Eval(Cur.x, In(At, "x"), Top, Cur.name, heap) } :
        IF r.err # "" THEN Throw(r.err) /\ UNCHANGED <<scopes, heap>>
        ELSE /\ scopes' = Bound(Top.env, Cur.name, r.v)
             /\ heap' = r.h /\ stack' = Advanced /\ UNCHANGED error
  /\ UNCHANGED <<queue, script, timers, now, out, finished>>
  /\ UNCHANGED lab

\* name = x, with a const assigned like any other binding.
ExecAssignAny ==
  /\ AtStmt("assign")
  /\ \E r \in { Eval(Cur.x, In(At, "x"), Top, Cur.name, heap) },
        sc \in { Resolve(Cur.name, Top.env) } :
        IF r.err # "" THEN Throw(r.err) /\ UNCHANGED <<scopes, heap>>
        ELSE IF sc = 0
          THEN /\ scopes' = [scopes EXCEPT ![1].b = (Cur.name :> Var(r.v)) @@ @]
               /\ heap' = r.h /\ stack' = Advanced /\ UNCHANGED error
        ELSE /\ scopes' = Bound(sc, Cur.name, r.v)
             /\ heap' = r.h /\ stack' = Advanced /\ UNCHANGED error
  /\ UNCHANGED <<queue, script, timers, now, out, finished>>
  /\ UNCHANGED lab

\* name = x
ExecAssign ==
  /\ AtStmt("assign")
  /\ \E r \in { Eval(Cur.x, In(At, "x"), Top, Cur.name, heap) },
        sc \in { Resolve(Cur.name, Top.env) } :
        IF r.err # "" THEN Throw(r.err) /\ UNCHANGED <<scopes, heap>>
        ELSE IF sc = 0
          THEN \* non-strict code: an undeclared name becomes a global
               /\ scopes' = [scopes EXCEPT ![1].b = (Cur.name :> Var(r.v)) @@ @]
               /\ heap' = r.h /\ stack' = Advanced /\ UNCHANGED error
        ELSE IF ~scopes[sc].b[Cur.name].init
          THEN /\ Throw("ReferenceError: Cannot access '" \o Cur.name
                          \o "' before initialization")
               /\ UNCHANGED <<scopes, heap>>
        ELSE IF scopes[sc].b[Cur.name].kind = "const"
          THEN /\ Throw("TypeError: Assignment to constant variable.")
               /\ UNCHANGED <<scopes, heap>>
        ELSE /\ scopes' = Bound(sc, Cur.name, r.v)
             /\ heap' = r.h /\ stack' = Advanced /\ UNCHANGED error
  /\ UNCHANGED <<queue, script, timers, now, out, finished>>
  /\ UNCHANGED lab

\* base.prop = x
ExecSet ==
  /\ AtStmt("set")
  /\ \E b \in { Eval(Cur.base, In(At, "base"), Top, "", heap) } :
     \E r \in { Eval(Cur.x, In(At, "x"), Top, Cur.prop, b.h) } :
        IF b.err # "" THEN Throw(b.err) /\ UNCHANGED heap
        ELSE IF r.err # "" THEN Throw(r.err) /\ UNCHANGED heap
        ELSE IF b.v.t = "undefined"
          THEN /\ Throw("TypeError: Cannot set properties of undefined (setting '"
                          \o Cur.prop \o "')")
               /\ UNCHANGED heap
        ELSE /\ heap' = IF b.v.t = "object" THEN PutProp(r.h, b.v.n, Cur.prop, r.v) ELSE r.h
             /\ stack' = Advanced /\ UNCHANGED error
  /\ UNCHANGED <<queue, script, scopes, timers, now, out, finished>>
  /\ UNCHANGED lab

\* The value after ++: the number plus one; undefined is not a number.
Increased(v) == IF v.t = "number" /\ v # NaN THEN Num(v.n + 1) ELSE NaN

\* base.prop++
ExecInc ==
  /\ AtStmt("inc")
  /\ \E b \in { Eval(Cur.base, In(At, "base"), Top, "", heap) } :
        IF b.err # "" THEN Throw(b.err) /\ UNCHANGED heap
        ELSE IF b.v.t = "undefined"
          THEN /\ Throw("TypeError: Cannot read properties of undefined (reading '"
                          \o Cur.prop \o "')")
               /\ UNCHANGED heap
        ELSE /\ heap' = IF b.v.t = "object"
                         THEN PutProp(b.h, b.v.n, Cur.prop,
                                      Increased(GetProp(b.h, b.v.n, Cur.prop)))
                         ELSE b.h
             /\ stack' = Advanced /\ UNCHANGED error
  /\ UNCHANGED <<queue, script, scopes, timers, now, out, finished>>
  /\ UNCHANGED lab

\* A function declaration does nothing when reached: it was hoisted.  An
\* expression statement is done when its call has returned.
ExecSkip ==
  /\ AtStmt("function") \/ AtStmt("expr") \/ AtStmt("import")
  /\ stack' = Advanced
  /\ UNCHANGED <<queue, script, scopes, heap, timers, now, out, error, finished>>
  /\ UNCHANGED lab

\* { ... }: a block gets a scope of its own.
EnterBlock ==
  /\ AtStmt("block")
  /\ scopes' = Append(scopes, Scope(Top.env, HoistBlock(In(At, "body")), FALSE, Undef))
  /\ stack' = Append(stack, Frame(In(At, "body"), Len(scopes) + 1, "block"))
  /\ UNCHANGED <<queue, script, heap, timers, now, out, error, finished>>
  /\ UNCHANGED lab

\* The end of a block or of a loop body.
ExitBlock ==
  /\ AtEnd /\ Top.kind \in {"block", "loopbody"}
  /\ stack' = LET rest == Front(stack) IN
              IF Top.kind = "block"
              THEN [rest EXCEPT ![Len(rest)] = [@ EXCEPT !.pc = @ + 1]]
              ELSE rest
  /\ UNCHANGED <<queue, script, scopes, heap, timers, now, out, error, finished>>
  /\ UNCHANGED lab

\* The scope of a call in which a var of the function whose name is bound
\* outside the function is that outer binding, not one of its own.
CallScopeReusing(fn, this, args) ==
  LET own == HoistFunction(Body(fn.body), fn.body, Len(scopes) + 1,
                           FuncNode(fn.body).params, args)
      ps == { FuncNode(fn.body).params[i] : i \in DOMAIN FuncNode(fn.body).params }
  IN Scope(fn.n,
           [n \in { m \in DOMAIN own : m \in ps \/ Resolve(m, fn.n) = 0 } |-> own[n]],
           ~FuncNode(fn.body).arrow, this)

\* The scope of a call in which an arrow function has a this of its own.
CallScopeOwnThis(fn, this, args) ==
  Scope(fn.n, HoistFunction(Body(fn.body), fn.body, Len(scopes) + 1,
                            FuncNode(fn.body).params, args),
        TRUE, this)

\* The scope of a call of function fn with this value and arguments: its
\* parent is the scope the function was created in; an arrow function has no
\* this of its own.
CallScope(fn, this, args) ==
  Scope(fn.n, HoistFunction(Body(fn.body), fn.body, Len(scopes) + 1,
                            FuncNode(fn.body).params, args),
        ~FuncNode(fn.body).arrow, this)

\* The this value of a call taken to be the object the callee's expression
\* begins with.
RECURSIVE Leftmost(_)
Leftmost(x) == IF x.e = "member" THEN Leftmost(x.x) ELSE x
ReceiverLeftmost(callee, at, f, h) ==
  IF callee.e = "member" THEN Eval(Leftmost(callee), at, f, "", h).v ELSE Obj(1)

\* The this value of the call a statement makes: the object left of the last
\* dot for a method call, the global object for a plain call (non-strict).
Receiver(callee, at, f, h) ==
  IF callee.e = "member" THEN Eval(callee.x, In(at, "x"), f, "", h).v ELSE Obj(1)

\* fn.call, fn.apply and fn.bind: the function is the one left of the dot.
Explicit(callee, at, f, h) ==
  /\ callee.e = "member" /\ callee.prop \in {"call", "apply", "bind"}
  /\ Eval(callee.x, In(at, "x"), f, "", h).err = ""
  /\ Receiver(callee, at, f, h).t = "function"

\* call, apply and bind taken to run the function as a plain call does.
ThisArgGlobal(vs) == Obj(1)

\* In non-strict code a this of undefined is the global object.
ThisArg(vs) == IF vs = <<>> \/ vs[1] = Undef THEN Obj(1) ELSE vs[1]

\* The function value bind gives: it remembers its target and its this.
Bound_fn(fn, this, h) ==
  [v |-> [t |-> "function", n |-> Len(h) + 1, s |-> "bound " \o fn.s, body |-> <<>>],
   h |-> Append(h, [cls |-> "bound", proto |-> 0, keys |-> <<"target", "this">>,
                    vals |-> [k \in {"target", "this"} |->
                                IF k = "target" THEN fn ELSE this]])]

\* What the call of statement c runs, given whether it binds this
\* explicitly, the receiver recv, the callee fn and the arguments as:
\* [err, fn, this, args, h, bind].
Invoked(c, explicit, recv, fn, as, bound) ==
  [err |-> IF fn.err # "" THEN fn.err
           ELSE IF as.err # "" THEN as.err
           ELSE IF fn.v.t # "function"
             THEN "TypeError: " \o TextOf(c.call) \o " is not a "
                    \o (IF c.new THEN "constructor" ELSE "function")
           ELSE "",
   fn |-> IF bound THEN as.h[fn.v.n].vals["target"] ELSE fn.v,
   bind |-> explicit /\ c.call.prop = "bind",
   this |-> IF c.new THEN Obj(Len(as.h) + 1)
            ELSE IF bound THEN as.h[fn.v.n].vals["this"]
            ELSE IF explicit THEN ThisArg(as.vs)
            ELSE recv,
   args |-> IF ~explicit THEN as.vs
            ELSE IF c.call.prop = "apply"
              THEN IF Len(as.vs) < 2 THEN <<>> ELSE Elements(as.h, as.vs[2].n)
            ELSE IF as.vs = <<>> THEN <<>> ELSE Tail(as.vs),
   h |-> as.h]

\* The arguments are evaluated after the callee.
InvokedOn(c, at, f, explicit, recv, fn) ==
  Invoked(c, explicit, recv, fn, EvalSeq(c.cargs, 1, In(at, "cargs"), f, fn.h, <<>>),
          fn.err = "" /\ fn.v.t = "function" /\ fn.v.body = <<>>)

Callee(c, at, f, h, explicit, recv) ==
  InvokedOn(c, at, f, explicit, recv,
            IF explicit THEN Ok(recv, h) ELSE Eval(c.call, In(at, "call"), f, "", h))

Invocation(c, at, f, h) ==
  Callee(c, at, f, h, Explicit(c.call, In(at, "call"), f, h),
         Receiver(c.call, In(at, "call"), f, h))

\* The call a statement makes.  With new, this is a new object; bind runs
\* nothing and gives a bound function.
Call ==
  /\ Running /\ Top.pc <= Len(Body(Top.path))
  /\ "call" \in DOMAIN Cur /\ ~Top.called
  /\ \E c \in { Invocation(Cur, At, Top, heap) } :
     IF c.err # "" THEN Throw(c.err) /\ UNCHANGED <<scopes, heap>>
     ELSE IF c.bind
       THEN \E bf \in { Bound_fn(c.fn, c.this, c.h) } :
            /\ heap' = bf.h
            /\ stack' = [stack EXCEPT ![Len(stack)] =
                           [@ EXCEPT !.called = TRUE, !.ret = bf.v]]
            /\ UNCHANGED <<scopes, error>>
     ELSE /\ heap' = IF Cur.new THEN Append(c.h, NewObject(c.fn.s)) ELSE c.h
          /\ scopes' = Append(scopes, CallScope(c.fn, c.this, c.args))
          /\ stack' = Append(stack,
               [Frame(c.fn.body, Len(scopes) + 1, "function")
                  EXCEPT !.self = IF Cur.new THEN c.this ELSE Undef])
          /\ UNCHANGED error
  /\ UNCHANGED <<queue, script, timers, now, out, finished>>
  /\ UNCHANGED lab

\* The stack after the running function returned v: its frames are dropped
\* and the caller, if any, has the value.  A call with new gives the new
\* object unless the function returned an object.
Returned(v) ==
  LET k == CHOOSE i \in DOMAIN stack :
             /\ stack[i].kind = "function"
             /\ \A j \in DOMAIN stack : stack[j].kind = "function" => j <= i
      rest == SubSeq(stack, 1, k - 1)
      res == IF stack[k].self # Undef /\ v.t # "object" THEN stack[k].self ELSE v
  IN IF rest = <<>> THEN rest
     ELSE [rest EXCEPT ![Len(rest)] = [@ EXCEPT !.called = TRUE, !.ret = res]]

\* return x
ExecReturn ==
  /\ AtStmt("return")
  /\ \E r \in { Eval(Cur.x, In(At, "x"), Top, "", heap) } :
     IF r.err # "" THEN Throw(r.err) /\ UNCHANGED heap
     ELSE stack' = Returned(r.v) /\ heap' = r.h /\ UNCHANGED error
  /\ UNCHANGED <<queue, script, scopes, timers, now, out, finished>>
  /\ UNCHANGED lab

\* return name++: the value before the increment is returned.
ExecReturnPostInc ==
  /\ AtStmt("returninc")
  /\ \E sc \in { Resolve(Cur.name, Top.env) }, r \in { Lookup(Cur.name, Top.env) } :
        IF r.err # "" THEN Throw(r.err) /\ UNCHANGED scopes
        ELSE IF scopes[sc].b[Cur.name].kind = "const"
          THEN Throw("TypeError: Assignment to constant variable.") /\ UNCHANGED scopes
        ELSE /\ scopes' = Bound(sc, Cur.name, Num(r.v.n + 1))
             /\ stack' = Returned(r.v) /\ UNCHANGED error
  /\ UNCHANGED <<queue, script, heap, timers, now, out, finished>>
  /\ UNCHANGED lab

\* return ++name: the binding is incremented and its new value returned.
ExecReturnInc ==
  /\ AtStmt("returninc")
  /\ \E sc \in { Resolve(Cur.name, Top.env) }, r \in { Lookup(Cur.name, Top.env) } :
        IF r.err # "" THEN Throw(r.err) /\ UNCHANGED scopes
        ELSE IF scopes[sc].b[Cur.name].kind = "const"
          THEN Throw("TypeError: Assignment to constant variable.") /\ UNCHANGED scopes
        ELSE /\ scopes' = Bound(sc, Cur.name, Num(r.v.n + 1))
             /\ stack' = Returned(Num(r.v.n + 1)) /\ UNCHANGED error
  /\ UNCHANGED <<queue, script, heap, timers, now, out, finished>>
  /\ UNCHANGED lab

\* The end of a function body returns undefined.
EndFunction ==
  /\ AtEnd /\ Top.kind = "function"
  /\ stack' = Returned(Undef)
  /\ UNCHANGED <<queue, script, scopes, heap, timers, now, out, error, finished>>
  /\ UNCHANGED lab

\* The end of the script's synchronous code.
EndScript ==
  /\ AtEnd /\ Top.kind = "script"
  /\ stack' = Front(stack)
  /\ UNCHANGED <<queue, script, scopes, heap, timers, now, out, error, finished>>
  /\ UNCHANGED lab

\* The scope the loop variable is read in: the iteration's for a let loop.
LoopEnv(f) == IF Cur.kind = "let" THEN f.iter ELSE f.env

\* The scope of one iteration of a let loop, holding the loop variable.
Iteration(parent, name, k) ==
  Scope(parent, (name :> [kind |-> "let", init |-> TRUE, val |-> Num(k)]), FALSE, Undef)

\* for (var|let name = init; ...): the initialiser.  A let loop gets a scope
\* for its first iteration.
ForStart ==
  /\ AtStmt("for") /\ Top.phase = ""
  /\ IF Cur.kind = "let"
     THEN /\ scopes' = Append(scopes, Iteration(Top.env, Cur.name, Cur.init))
          /\ stack' = [stack EXCEPT ![Len(stack)] =
                         [@ EXCEPT !.phase = "test", !.iter = Len(scopes) + 1]]
     ELSE /\ scopes' = Bound(Resolve(Cur.name, Top.env), Cur.name, Num(Cur.init))
          /\ stack' = [stack EXCEPT ![Len(stack)] = [@ EXCEPT !.phase = "test"]]
  /\ UNCHANGED <<queue, script, heap, timers, now, out, error, finished>>
  /\ UNCHANGED lab

\* for (...; name < limit; ...): the test, then the body in a block scope.
ForTest ==
  /\ AtStmt("for") /\ Top.phase = "test"
  /\ IF Lookup(Cur.name, LoopEnv(Top)).v.n < Cur.limit
     THEN /\ scopes' = Append(scopes,
               Scope(LoopEnv(Top), HoistBlock(In(At, "body")), FALSE, Undef))
          /\ stack' = Append([stack EXCEPT ![Len(stack)] = [@ EXCEPT !.phase = "update"]],
                             Frame(In(At, "body"), Len(scopes) + 1, "loopbody"))
     ELSE /\ stack' = [stack EXCEPT ![Len(stack)] =
                         [@ EXCEPT !.pc = @ + 1, !.phase = "", !.iter = 0]]
          /\ UNCHANGED scopes
  /\ UNCHANGED <<queue, script, heap, timers, now, out, error, finished>>
  /\ UNCHANGED lab

\* The scope of the next iteration of a let loop: a copy of the current
\* one, in which the variable is then incremented.
NextIteration(f, name) ==
  Iteration(f.env, name, scopes[f.iter].b[name].val.n + 1)

\* for (...; ...; name++): a let loop moves to a new scope for the next
\* iteration; a var loop increments the one binding.
ForUpdate ==
  /\ AtStmt("for") /\ Top.phase = "update"
  /\ IF Cur.kind = "let"
     THEN /\ scopes' = Append(scopes, NextIteration(Top, Cur.name))
          /\ stack' = [stack EXCEPT ![Len(stack)] =
                         [@ EXCEPT !.phase = "test", !.iter = Len(scopes) + 1]]
     ELSE /\ scopes' = Bound(Resolve(Cur.name, Top.env), Cur.name,
                             Num(Lookup(Cur.name, Top.env).v.n + 1))
          /\ stack' = [stack EXCEPT ![Len(stack)] = [@ EXCEPT !.phase = "test"]]
  /\ UNCHANGED <<queue, script, heap, timers, now, out, error, finished>>
  /\ UNCHANGED lab

\* Timers range from 1 ms: a delay below that is 1.
Due(delay) == now + (IF delay < 1 THEN 1 ELSE delay)

\* setTimeout calling its callback at once instead of scheduling it.
CallNow ==
  /\ AtStmt("setTimeout")
  /\ \E fn \in { Eval(Cur.x, In(At, "x"), Top, "", heap).v } :
        /\ scopes' = Append(scopes, CallScope(fn, Obj(1), <<>>))
        /\ stack' = Append(Advanced, Frame(fn.body, Len(scopes) + 1, "function"))
  /\ UNCHANGED <<queue, script, heap, timers, now, out, error, finished>>
  /\ UNCHANGED lab

\* setTimeout(fn, delay)
ExecSetTimeout ==
  /\ AtStmt("setTimeout")
  /\ timers' = Append(timers, [fn |-> Eval(Cur.x, In(At, "x"), Top, "", heap).v,
                               due |-> Due(Cur.delay)])
  /\ stack' = Advanced
  /\ UNCHANGED <<queue, script, scopes, heap, now, out, error, finished>>
  /\ UNCHANGED lab

\* The earliest timer due, the last scheduled among equals.
NextTimerLast(ts) ==
  CHOOSE i \in DOMAIN ts :
    \A j \in DOMAIN ts : ts[i].due < ts[j].due \/ (ts[i].due = ts[j].due /\ i >= j)

\* The timer to run next: the earliest due, the first scheduled among equals.
NextTimer(ts) ==
  CHOOSE i \in DOMAIN ts :
    \A j \in DOMAIN ts : ts[i].due < ts[j].due \/ (ts[i].due = ts[j].due /\ i <= j)

Without(ts, i) == SubSeq(ts, 1, i - 1) \o SubSeq(ts, i + 1, Len(ts))

\* A timer callback that interrupts running code as soon as it is due.
Preempt ==
  /\ script # "" /\ error = "" /\ timers # <<>>
  /\ LET i == NextTimer(timers)
         t == timers[i]
     IN /\ stack = <<>> \/ now >= t.due
        /\ now' = IF now < t.due THEN t.due ELSE now
        /\ timers' = Without(timers, i)
        /\ scopes' = Append(scopes, CallScope(t.fn, Obj(1), <<>>))
        /\ stack' = Append(stack, Frame(t.fn.body, Len(scopes) + 1, "function"))
  /\ UNCHANGED <<queue, script, heap, out, error, finished>>
  /\ UNCHANGED lab

\* The event loop runs a timer callback once no code is running.
RunTimer ==
  /\ script # "" /\ error = "" /\ stack = <<>> /\ timers # <<>>
  /\ LET i == NextTimer(timers)
         t == timers[i]
     IN /\ now' = IF now < t.due THEN t.due ELSE now
        /\ timers' = Without(timers, i)
        /\ scopes' = Append(scopes, CallScope(t.fn, Obj(1), <<>>))
        /\ stack' = << Frame(t.fn.body, Len(scopes) + 1, "function") >>
  /\ UNCHANGED <<queue, script, heap, out, error, finished>>
  /\ UNCHANGED lab

\* Time passes while code runs.
Tick ==
  /\ Running /\ now < MaxTicks
  /\ now' = now + 1
  /\ UNCHANGED <<queue, script, stack, scopes, heap, timers, out, error, finished>>
  /\ UNCHANGED lab

\* The process ends: nothing is left to run, or an exception was not caught.
Exit ==
  /\ script # "" /\ stack = <<>>
  /\ timers = <<>> \/ error # ""
  /\ finished' = Append(finished, [script |-> script, out |-> out, error |-> error])
  /\ script' = "" /\ error' = ""
  /\ UNCHANGED <<queue, stack, scopes, heap, timers, now, out>>
  /\ UNCHANGED lab

-----------------------------------------------------------------------------
(* Arrays: the built-in methods of the README's array chapter, called on   *)
(* one array. lab is [h, base, n, op, args, was, ret, cbs, res, kept, err]: *)
(* the heap h whose object 1 is the array and whose first base objects are *)
(* the array and what it holds, the number n of calls made, the last call  *)
(* (method op, arguments args, the array's elements was before it, the     *)
(* value ret it returned, the number cbs of times it called its callback), *)
(* the last array res a method returned with the elements kept it had then, *)
(* and the uncaught exception err.                                         *)

\* How many method calls are made on one array.
MaxCalls == 4

Numbers(ns) == ArrayOf([i \in DOMAIN ns |-> Num(ns[i])])
Person(name) == PutProp(<<NewObject("Object")>>, 1, "name", Str(name))[1]

\* The arrays the README's examples start from, each with what it holds.
Arrays ==
  { <<Numbers(<<>>)>>, <<Numbers(<<1, 2, 3>>)>>, <<Numbers(<<1, 2, 3, 4>>)>>,
    <<Numbers(<<1, 2, 3, 4, 5>>)>>,
    <<ArrayOf(<<Obj(2), Obj(3)>>), Person("John"), Person("Jane")>> }

Lab(h) ==
  [h |-> h, base |-> Len(h), n |-> 0, op |-> "", args |-> <<>>, was |-> <<>>,
   ret |-> Undef, cbs |-> 0, res |-> Undef, kept |-> <<>>, err |-> ""]

\* The elements of the array.
Arr == Elements(lab.h, 1)
\* The elements of seq from index a (counted from 0) up to, not including, b.
Part(seq, a, b) == [i \in 1..(b - a) |-> seq[a + i]]
Least(a, b) == IF a < b THEN a ELSE b
\* A call can be made: the script has neither ended nor thrown.
Callable == lab.h # <<>> /\ lab.n < MaxCalls /\ lab.err = ""
Idle == UNCHANGED <<queue, script, stack, scopes, heap, timers, now, out, error, finished>>

\* A method that changes the array to elems and returns ret.
Changed(op, args, elems, ret) ==
  lab' = [lab EXCEPT !.h = [lab.h EXCEPT ![1] = ArrayOf(elems)], !.n = @ + 1,
                     !.op = op, !.args = args, !.was = Arr, !.ret = ret, !.cbs = 0]
\* A method that returns a new array of elems, made after the arrays made
\* that it was given as arguments, having changed the array to rest and called its
\* callback cbs times. The array the call before returned is dropped.
Made(op, args, made, rest, elems, cbs) ==
  \E h \in { [i \in 1..lab.base |-> IF i = 1 THEN ArrayOf(rest) ELSE lab.h[i]]
               \o made \o <<ArrayOf(elems)>> } :
    lab' = [lab EXCEPT !.h = h, !.n = @ + 1, !.op = op,
                       !.args = args,
                       !.was = Arr, !.ret = Obj(Len(h)), !.cbs = cbs,
                       !.res = Obj(Len(h)), !.kept = elems]
\* A method that returns the value ret and changes nothing.
Gave(op, args, ret, cbs) ==
  lab' = [lab EXCEPT !.n = @ + 1, !.op = op, !.args = args, !.was = Arr,
                     !.ret = ret, !.cbs = cbs]

\* arr.push(x)
pushFluent ==
  /\ Callable /\ Idle
  /\ \E x \in {Num(4)} : Changed("push", <<x>>, Append(Arr, x), Obj(1))

push ==
  /\ Callable /\ Idle
  /\ \E x \in {Num(4)} : Changed("push", <<x>>, Append(Arr, x), Num(Len(Arr) + 1))

\* arr.unshift(x)
unshift ==
  /\ Callable /\ Idle
  /\ \E x \in {Num(0)} : Changed("unshift", <<x>>, <<x>> \o Arr, Num(Len(Arr) + 1))

\* arr.pop()
pop ==
  /\ Callable /\ Idle
  /\ IF Arr = <<>> THEN Changed("pop", <<>>, <<>>, Undef)
     ELSE Changed("pop", <<>>, Front(Arr), Last(Arr))

\* arr.shift()
shift ==
  /\ Callable /\ Idle
  /\ IF Arr = <<>> THEN Changed("shift", <<>>, <<>>, Undef)
     ELSE Changed("shift", <<>>, Tail(Arr), Head(Arr))

\* The calls of splice the README makes: [start, n, items].
SpliceCalls ==
  { [start |-> 1, n |-> 1, items |-> <<Str("a"), Str("b")>>],
    [start |-> 2, n |-> 2, items |-> <<Str("a"), Str("b")>>],
    [start |-> 1, n |-> 0, items |-> <<Str("a")>>] }

\* arr.splice(start, n, ...items)
splice ==
  /\ Callable /\ Idle
  /\ \E c \in SpliceCalls :
       \E s \in { Least(c.start, Len(Arr)) } :
         \E d \in { Least(c.n, Len(Arr) - s) } :
           Made("splice", <<Num(c.start), Num(c.n)>> \o c.items, <<>>,
                Part(Arr, 0, s) \o c.items \o Part(Arr, s + d, Len(Arr)),
                Part(Arr, s, s + d), 0)

\* arr.slice(start) and arr.slice(start, end)
sliceInPlace ==
  /\ Callable /\ Idle
  /\ \E a \in { <<1>>, <<1, 3>> } :
       \E s \in { Least(a[1], Len(Arr)) } :
         \E e \in { IF Len(a) = 2 THEN Least(a[2], Len(Arr)) ELSE Len(Arr) } :
           Made("slice", [i \in DOMAIN a |-> Num(a[i])], <<>>,
                Part(Arr, 0, s) \o Part(Arr, e, Len(Arr)), Part(Arr, s, e), 0)

slice ==
  /\ Callable /\ Idle
  /\ \E a \in { <<1>>, <<1, 3>> } :
       \E s \in { Least(a[1], Len(Arr)) } :
         \E e \in { IF Len(a) = 2 THEN Least(a[2], Len(Arr)) ELSE Len(Arr) } :
           Made("slice", [i \in DOMAIN a |-> Num(a[i])], <<>>, Arr, Part(Arr, s, e), 0)

\* arr.concat([6, 7], [8, 9])
concat ==
  /\ Callable /\ Idle
  /\ \E made \in { <<Numbers(<<6, 7>>), Numbers(<<8, 9>>)>> } :
       Made("concat", [i \in DOMAIN made |-> Obj(lab.base + i)], made, Arr,
            Arr \o Flatten([i \in DOMAIN made |-> Elements(made, i)]), 0)

\* The elements of an array as join writes them, sep between them.
RECURSIVE Joined(_, _)
Joined(elems, sep) ==
  IF elems = <<>> THEN ""
  ELSE (IF Head(elems).t = "undefined" THEN "" ELSE ToText(Head(elems)))
       \o (IF Len(elems) = 1 THEN "" ELSE sep \o Joined(Tail(elems), sep))

\* arr.join("-")
join ==
  /\ Callable /\ Idle
  /\ \E sep \in {"-"} : Gave("join", <<Str(sep)>>, Str(Joined(Arr, sep)), 0)

\* (person) => person.name
NameOf(h, v) == IF v.t = "object" THEN GetProp(h, v.n, "name") ELSE Undef
\* (num) => num % 2 === 0
IsEven(v) == v.t = "number" /\ v.n % 2 = 0
\* (acc, num) => acc + num
Plus(a, b) ==
  IF a.t = "number" /\ b.t = "number" THEN Num(a.n + b.n)
  ELSE Str(ToText(a) \o ToText(b))

\* arr.map((person) => person.name)
map ==
  /\ Callable /\ Idle
  /\ Made("map", <<Str("name")>>, <<>>, Arr,
          [i \in DOMAIN Arr |-> NameOf(lab.h, Arr[i])], Len(Arr))

RECURSIVE Kept(_)
Kept(elems) ==
  IF elems = <<>> THEN <<>>
  ELSE (IF IsEven(Head(elems)) THEN <<Head(elems)>> ELSE <<>>) \o Kept(Tail(elems))

\* arr.filter((num) => num % 2 === 0)
filter ==
  /\ Callable /\ Idle
  /\ Made("filter", <<Str("even")>>, <<>>, Arr, Kept(Arr), Len(Arr))

\* The accumulator acc after the callback was called on each of elems.
RECURSIVE Fold(_, _)
Fold(acc, elems) == IF elems = <<>> THEN acc ELSE Fold(Plus(acc, Head(elems)), Tail(elems))

\* arr.reduce((acc, num) => acc + num) and arr.reduce(..., 0)
reduceOrUndefined ==
  /\ Callable /\ Idle
  /\ \E init \in { <<>>, <<Num(0)>> } :
       IF Arr = <<>> /\ init = <<>> THEN Gave("reduce", init, Undef, 0)
       ELSE IF init = <<>> THEN Gave("reduce", init, Fold(Head(Arr), Tail(Arr)), Len(Arr) - 1)
       ELSE Gave("reduce", init, Fold(init[1], Arr), Len(Arr))

reduce ==
  /\ Callable /\ Idle
  /\ \E init \in { <<>>, <<Num(0)>> } :
       IF Arr = <<>> /\ init = <<>>
         THEN lab' = [lab EXCEPT !.n = @ + 1, !.op = "reduce", !.args = init, !.was = Arr,
                                 !.ret = Undef, !.cbs = 0,
                                 !.err = "TypeError: Reduce of empty array with no initial value"]
       ELSE IF init = <<>> THEN Gave("reduce", init, Fold(Head(Arr), Tail(Arr)), Len(Arr) - 1)
       ELSE Gave("reduce", init, Fold(init[1], Arr), Len(Arr))

\* arr[0].name = "Bob"
SetName ==
  /\ Callable /\ Idle
  /\ Arr # <<>> /\ Arr[1].t = "object"
  /\ lab' = [lab EXCEPT !.h = PutProp(lab.h, Arr[1].n, "name", Str("Bob")), !.n = @ + 1,
                        !.op = "set", !.args = <<Str("Bob")>>, !.was = Arr,
                        !.ret = Str("Bob"), !.cbs = 0]
-----------------------------------------------------------------------------
(* Objects: reads, writes and deletes of properties along a prototype      *)
(* chain, on a property that is not writable, and through a Proxy. lab is  *)
(* [h, ro, hidden, proxy, strict, n, op, args, was, ret, fails, out, err]: *)
(* the heap h, the properties ro that were defined not writable and those  *)
(* hidden from enumeration (pairs of object and key), the target proxy of  *)
(* the program's Proxy (0 when it has none), whether the program is in     *)
(* strict mode, the number n of statements run, the last one (operation    *)
(* op, operands args, the heap was before it, its value ret), the number   *)
(* fails of writes that failed silently, the lines out printed, and the    *)
(* uncaught exception err.                                                 *)

\* How many statements a program runs after creating its objects.
MaxOps == 3

PropKeys == {"a", "b"}
PropVals == {Num(-1), Num(1), Num(2)}
Bool(b) == [t |-> "boolean", n |-> IF b THEN 1 ELSE 0, s |-> "", body |-> <<>>]

\* { a: 1 }
BaseObject == PutProp(<<NewObject("")>>, 1, "a", Num(1))[1]

\* The objects the README's programs create before anything else:
\* Object.create(base); Object.create(base, { b: { value: 2, enumerable:
\* true } }); Object.defineProperty(o, "a", { value: 1, writable: false });
\* new Proxy(target, { set }).
Created ==
  { [h |-> <<BaseObject, [NewObject("") EXCEPT !.proto = 1]>>,
     ro |-> {}, hidden |-> {}, proxy |-> 0],
    [h |-> <<BaseObject, [PutProp(<<NewObject("")>>, 1, "b", Num(2))[1] EXCEPT !.proto = 1]>>,
     ro |-> {<<2, "b">>}, hidden |-> {}, proxy |-> 0],
    [h |-> <<BaseObject>>, ro |-> {<<1, "a">>}, hidden |-> {<<1, "a">>}, proxy |-> 0],
    [h |-> <<BaseObject>>, ro |-> {}, hidden |-> {}, proxy |-> 1] }

\* The object on the prototype chain of id that has k as its own property,
\* 0 when none has.
RECURSIVE Owner(_, _, _)
Owner(h, id, k) ==
  IF id = 0 THEN 0
  ELSE IF k \in DOMAIN h[id].vals THEN id
  ELSE Owner(h, h[id].proto, k)

\* The heap without own property k of object id.
DelProp(h, id, k) ==
  [h EXCEPT ![id] = [cls |-> @.cls, proto |-> @.proto,
                     keys |-> SelectSeq(@.keys, LAMBDA x : x # k),
                     vals |-> [x \in DOMAIN @.vals \ {k} |-> @.vals[x]]]]

Ready == lab.n < MaxOps /\ lab.err = ""

\* A statement was run: the heap is h, its value ret; it threw err, or
\* failed without a sign, or printed lines.
Done(op, args, h, ret, err, failed, printed) ==
  lab' = [lab EXCEPT !.h = h, !.n = @ + 1, !.op = op, !.args = args, !.was = lab.h,
                     !.ret = ret, !.err = err,
                     !.fails = IF failed THEN @ + 1 ELSE @, !.out = @ \o printed]

\* A write that was refused: it throws in strict mode and is ignored otherwise.
Refused(op, args, ret, msg) ==
  IF lab.strict THEN Done(op, args, lab.h, ret, msg, FALSE, <<>>)
  ELSE Done(op, args, lab.h, ret, "", TRUE, <<>>)

ReadOnlyError(k) ==
  "TypeError: Cannot assign to read only property '" \o k \o "' of object '#<Object>'"

\* o.k = v, writing the property on the object that has it
PropAssignWhereFound ==
  /\ Ready /\ Idle
  /\ \E id \in DOMAIN lab.h, k \in PropKeys, v \in PropVals :
       \E own \in { Owner(lab.h, id, k) } :
         IF own # 0 /\ <<own, k>> \in lab.ro
         THEN Refused("assign", <<Obj(id), Str(k), v>>, v, ReadOnlyError(k))
         ELSE Done("assign", <<Obj(id), Str(k), v>>,
                   PutProp(lab.h, IF own = 0 THEN id ELSE own, k, v), v, "", FALSE, <<>>)

\* o.k = v, whatever the property allows
PropAssignForced ==
  /\ Ready /\ Idle
  /\ \E id \in DOMAIN lab.h, k \in PropKeys, v \in PropVals :
       Done("assign", <<Obj(id), Str(k), v>>, PutProp(lab.h, id, k, v), v, "", FALSE, <<>>)

\* o.k = v: the property is looked up along the chain; one that is not
\* writable refuses the write, any other is written on o itself.
PropAssign ==
  /\ Ready /\ Idle
  /\ \E id \in DOMAIN lab.h, k \in PropKeys, v \in PropVals :
       \E own \in { Owner(lab.h, id, k) } :
         IF own # 0 /\ <<own, k>> \in lab.ro
         THEN Refused("assign", <<Obj(id), Str(k), v>>, v, ReadOnlyError(k))
         ELSE Done("assign", <<Obj(id), Str(k), v>>, PutProp(lab.h, id, k, v), v, "",
                   FALSE, <<>>)

\* delete o.k: a property defined through a descriptor is not configurable.
PropDelete ==
  /\ Ready /\ Idle
  /\ \E id \in DOMAIN lab.h, k \in PropKeys :
       IF k \notin DOMAIN lab.h[id].vals
       THEN Done("delete", <<Obj(id), Str(k)>>, lab.h, Bool(TRUE), "", FALSE, <<>>)
       ELSE IF <<id, k>> \in lab.ro
       THEN Refused("delete", <<Obj(id), Str(k)>>, Bool(FALSE),
                    "TypeError: Cannot delete property '" \o k \o "' of #<Object>")
       ELSE Done("delete", <<Obj(id), Str(k)>>, DelProp(lab.h, id, k), Bool(TRUE), "",
                 FALSE, <<>>)

\* console.log(o.k)
PropRead ==
  /\ Ready /\ Idle
  /\ \E id \in DOMAIN lab.h, k \in PropKeys :
       \E v \in { GetProp(lab.h, id, k) } :
         Done("read", <<Obj(id), Str(k)>>, lab.h, v, "", FALSE, <<Format(v, lab.h)>>)

\* Object.keys(o): the own properties that are enumerable, in order.
ObjectKeys ==
  /\ Ready /\ Idle
  /\ \E id \in DOMAIN lab.h :
       Done("keys", <<Obj(id)>>, lab.h,
            SelectSeq(lab.h[id].keys, LAMBDA k : <<id, k>> \notin lab.hidden), "", FALSE, <<>>)

\* Object.hasOwn(o, k)
ObjectHasOwn ==
  /\ Ready /\ Idle
  /\ \E id \in DOMAIN lab.h, k \in PropKeys :
       Done("hasOwn", <<Obj(id), Str(k)>>, lab.h, Bool(k \in DOMAIN lab.h[id].vals), "",
            FALSE, <<>>)

\* k in o
PropIn ==
  /\ Ready /\ Idle
  /\ \E id \in DOMAIN lab.h, k \in PropKeys :
       Done("in", <<Obj(id), Str(k)>>, lab.h, Bool(Owner(lab.h, id, k) # 0), "", FALSE, <<>>)

TrapError(k) == "TypeError: 'set' on proxy: trap returned falsish for property '" \o k \o "'"

\* proxy.k = v with the set trap ignored
ProxyAssignThrough ==
  /\ Ready /\ Idle /\ lab.proxy # 0
  /\ \E k \in PropKeys, v \in PropVals :
       Done("proxy.assign", <<Str(k), v>>, PutProp(lab.h, lab.proxy, k, v), v, "", FALSE, <<>>)

\* proxy.k = v: the set trap returns false for a negative v and
\* Reflect.set(t, k, v, r) otherwise; a false result refuses the write.
ProxyAssign ==
  /\ Ready /\ Idle /\ lab.proxy # 0
  /\ \E k \in PropKeys, v \in PropVals :
       \E own \in { Owner(lab.h, lab.proxy, k) } :
         IF v.n < 0 \/ (own # 0 /\ <<own, k>> \in lab.ro)
         THEN Refused("proxy.assign", <<Str(k), v>>, v, TrapError(k))
         ELSE Done("proxy.assign", <<Str(k), v>>, PutProp(lab.h, lab.proxy, k, v), v, "",
                   FALSE, <<>>)

\* console.log(proxy.k): the handler has no get trap.
ProxyRead ==
  /\ Ready /\ Idle /\ lab.proxy # 0
  /\ \E k \in PropKeys :
       \E v \in { GetProp(lab.h, lab.proxy, k) } :
         Done("proxy.read", <<Str(k)>>, lab.h, v, "", FALSE, <<Format(v, lab.h)>>)

-----------------------------------------------------------------------------
(* The age and salary programs: the procedural one and the Player class.   *)
(* Instants are counted in whole days since 1970-01-01 UTC: a birth date   *)
(* is a date without a time, so it is a whole number of days, and the UTC  *)
(* year of an instant is that of its day. lab is [now, name, dob, salary,  *)
(* months, player, proc, years, oo, sets, age, pay, op]: the clock, the    *)
(* four values both programs are given, the Player object (<<>> before     *)
(* new), the lines the procedural program has printed and what its         *)
(* calculate_age returned, the lines the Player program has printed, the   *)
(* number of assignments made to properties of the player afterwards, what *)
(* the last calls of its methods returned (-1 and "" before any), and the  *)
(* last step.                                                              *)

\* How many assignments to properties of the player are made.
MaxSets == 1

Date(y, m, d) == [y |-> y, m |-> m, d |-> d]
IsLeap(y) == y % 4 = 0 /\ (y % 100 # 0 \/ y % 400 = 0)
YearLen(y) == IF IsLeap(y) THEN 366 ELSE 365
MonthLen(y, m) ==
  IF m = 2 THEN (IF IsLeap(y) THEN 29 ELSE 28)
  ELSE IF m \in {4, 6, 9, 11} THEN 30 ELSE 31

\* The days from 1970-01-01 to the first day of year y, and from then to
\* the first day of month m.
RECURSIVE DaysToYear(_)
DaysToYear(y) ==
  IF y = 1970 THEN 0
  ELSE IF y > 1970 THEN DaysToYear(y - 1) + YearLen(y - 1)
  ELSE DaysToYear(y + 1) - YearLen(y)
RECURSIVE DaysToMonth(_, _)
DaysToMonth(y, m) == IF m = 1 THEN 0 ELSE DaysToMonth(y, m - 1) + MonthLen(y, m - 1)

\* new Date("YYYY-MM-DD").getTime()
getTime(date) == DaysToYear(date.y) + DaysToMonth(date.y, date.m) + date.d - 1

\* new Date(t).getUTCFullYear(): the year y reached from 1970 with t days left.
RECURSIVE YearFrom(_, _)
YearFrom(y, t) ==
  IF t < 0 THEN YearFrom(y - 1, t + YearLen(y - 1))
  ELSE IF t >= YearLen(y) THEN YearFrom(y + 1, t - YearLen(y))
  ELSE y
getUTCFullYear(t) == YearFrom(1970, t)

\* Math.abs
Abs(x) == IF x < 0 THEN 0 - x ELSE x

\* (n).toLocaleString() of a whole number that is not negative, in the
\* en-US locale: its digits in groups of three.
RECURSIVE toLocaleString(_)
toLocaleString(n) ==
  IF n < 1000 THEN NumStr(n)
  ELSE toLocaleString(n \div 1000) \o ","
         \o Digit((n % 1000) \div 100) \o Digit((n % 100) \div 10) \o Digit(n % 10)

\* The procedural program's functions.
calculate_age_signed(dob, at) == getUTCFullYear(at - getTime(dob)) - 1970

calculate_age(dob, at) == Abs(getUTCFullYear(at - getTime(dob)) - 1970)

getSalary(monthlySalary, noOfMonths) == toLocaleString(monthlySalary * noOfMonths)

\* new Player(...): the four private fields, and no property.
Player(name, birthDate, monthlySalary, noOfMonths) ==
  [priv |-> [name |-> name, birthDate |-> birthDate, monthlySalary |-> monthlySalary,
             noOfMonths |-> noOfMonths],
   pub |-> << >>]

\* The methods of Player, on player p.
Player_calculate_age(p, at) == Abs(getUTCFullYear(at - getTime(p.priv.birthDate)) - 1970)

Player_getSalaryYearly(p) == toLocaleString(p.priv.monthlySalary * 12)

Player_getSalary(p) == toLocaleString(p.priv.monthlySalary * p.priv.noOfMonths)

\* p.k read as a private field would be, were it allowed
PropertyOrField(p, k) ==
  IF k \in DOMAIN p.pub THEN p.pub[k] ELSE Str(p.priv[k])
\* p.k read from outside the class: a property, not a private field.
Property(p, k) == IF k \in DOMAIN p.pub THEN p.pub[k] ELSE Undef

\* The days the programs are run on, and the values they are given.
Todays == { Date(2026, 11, 4), Date(2024, 2, 29), Date(2025, 1, 1) }
BirthDates ==
  { Date(1990, 1, 1), Date(1960, 5, 5), Date(1969, 12, 31), Date(1970, 1, 1),
    Date(2000, 2, 29), Date(2023, 3, 1), Date(2024, 2, 28), Date(2024, 2, 29),
    Date(2024, 3, 1), Date(2024, 12, 31), Date(2025, 1, 1), Date(2025, 2, 28),
    Date(2025, 11, 4), Date(2025, 11, 5), Date(2025, 12, 31), Date(2026, 1, 1),
    Date(2026, 11, 3), Date(2026, 11, 4), Date(2026, 11, 5), Date(2027, 11, 3),
    Date(2027, 11, 4), Date(2027, 11, 5), Date(2030, 6, 15) }
Salaries == {0, 999, 500000}
Months == {1, 12}

Players ==
  { [now |-> getTime(today), name |-> "Mahadi", dob |-> dob, salary |-> s, months |-> m,
     player |-> <<>>, proc |-> <<>>, years |-> 0 - 1, oo |-> <<>>, sets |-> 0, age |-> 0 - 1, pay |-> "",
     op |-> ""] :
    today \in Todays, dob \in BirthDates, s \in Salaries, m \in Months }

\* console.log(`Your age is ${calculate_age(birthDay)} years`)
ProcAge ==
  /\ Idle /\ lab.proc = <<>>
  /\ \E age \in { calculate_age(lab.dob, lab.now) } :
       lab' = [lab EXCEPT !.op = "proc", !.years = age,
                          !.proc = <<"Your age is " \o NumStr(age) \o " years">>]

\* console.log(`Your salary is ${getSalary(monthlySalary, noOfMonths)} Taka`)
ProcSalary ==
  /\ Idle /\ Len(lab.proc) = 1
  /\ lab' = [lab EXCEPT !.op = "proc",
               !.proc = Append(@, "Your salary is " \o getSalary(lab.salary, lab.months)
                                    \o " Taka")]

\* const mahadi = new Player(name, birthDate, monthlySalary, noOfMonths)
NewPlayer ==
  /\ Idle /\ lab.player = <<>>
  /\ lab' = [lab EXCEPT !.op = "new",
               !.player = <<Player(lab.name, lab.dob, lab.salary, lab.months)>>]

\* console.log(`${mahadi.name} age is ${mahadi.calculate_age()} years`)
PrintAgeNamed ==
  /\ Idle /\ lab.player # <<>> /\ lab.oo = <<>>
  /\ lab' = [lab EXCEPT !.op = "oo",
               !.oo = <<ToText(PropertyOrField(lab.player[1], "name")) \o " age is "
                          \o NumStr(Player_calculate_age(lab.player[1], lab.now))
                          \o " years">>]

PrintAge ==
  /\ Idle /\ lab.player # <<>> /\ lab.oo = <<>>
  /\ lab' = [lab EXCEPT !.op = "oo",
               !.oo = <<ToText(Property(lab.player[1], "name")) \o " age is "
                          \o NumStr(Player_calculate_age(lab.player[1], lab.now))
                          \o " years">>]

\* console.log(`${mahadi.name} salary is ${mahadi.getSalary()} Taka`)
PrintSalary ==
  /\ Idle /\ Len(lab.oo) = 1
  /\ lab' = [lab EXCEPT !.op = "oo",
               !.oo = Append(@, ToText(Property(lab.player[1], "name")) \o " salary is "
                                  \o Player_getSalary(lab.player[1]) \o " Taka")]

\* mahadi.k = v, after the program's lines: k becomes a property.
SetProperty ==
  /\ Idle /\ Len(lab.oo) = 2 /\ lab.sets < MaxSets
  /\ \E k \in {"name", "birthDate", "monthlySalary", "noOfMonths"},
        v \in {Str("Tamim"), Num(1)} :
       lab' = [lab EXCEPT !.op = "set", !.sets = @ + 1,
                          !.player = <<[lab.player[1] EXCEPT !.pub = (k :> v) @@ @]>>]

\* mahadi.calculate_age() and mahadi.getSalary(), called again later
CallMethods ==
  /\ Idle /\ Len(lab.oo) = 2
  /\ lab' = [lab EXCEPT !.op = "call",
                        !.age = Player_calculate_age(lab.player[1], lab.now),
                        !.pay = Player_getSalary(lab.player[1])]


Init ==
  /\ queue \in Sessions
  /\ script = "" /\ stack = <<>> /\ scopes = <<>> /\ heap = <<>> /\ timers = <<>>
  /\ now = 0 /\ out = <<>> /\ error = "" /\ finished = <<>>
  /\ lab = Lab(<<>>)

Next ==
  \/ Load \/ LoadModules \/ ExecLog \/ ExecVar \/ ExecLexical \/ ExecAssign \/ ExecSet
  \/ ExecInc \/ ExecSkip \/ EnterBlock \/ ExitBlock \/ Call \/ ExecReturn \/ ExecReturnInc \/ EndFunction
  \/ EndScript \/ ForStart \/ ForTest \/ ForUpdate
  \/ ExecSetTimeout \/ RunTimer \/ Tick \/ Exit

Spec == Init /\ [][Next]_vars

\* A script that makes up to MaxCalls method calls on one array.
ArrayInit ==
  /\ queue = <<>> /\ script = "" /\ stack = <<>> /\ scopes = <<>> /\ heap = <<>>
  /\ timers = <<>> /\ now = 0 /\ out = <<>> /\ error = "" /\ finished = <<>>
  /\ lab \in { Lab(h) : h \in Arrays }

ArrayNext ==
  \/ push \/ unshift \/ pop \/ shift \/ splice
  \/ slice \/ concat \/ join \/ map \/ filter \/ reduce \/ SetName

ArraySpec == ArrayInit /\ [][ArrayNext]_vars

\* A program that creates its objects and then runs up to MaxOps statements
\* on them, in strict mode or not.
ObjectInit ==
  /\ queue = <<>> /\ script = "" /\ stack = <<>> /\ scopes = <<>> /\ heap = <<>>
  /\ timers = <<>> /\ now = 0 /\ out = <<>> /\ error = "" /\ finished = <<>>
  /\ lab \in { [h |-> c.h, ro |-> c.ro, hidden |-> c.hidden, proxy |-> c.proxy,
                 strict |-> s, n |-> 0, op |-> "", args |-> <<>>, was |-> c.h,
                 ret |-> Undef, fails |-> 0, out |-> <<>>, err |-> ""] :
               c \in Created, s \in BOOLEAN }

ObjectNext ==
  \/ PropAssign \/ PropDelete \/ PropRead \/ ObjectKeys \/ ObjectHasOwn \/ PropIn
  \/ ProxyAssign \/ ProxyRead

ObjectSpec == ObjectInit /\ [][ObjectNext]_vars

\* The procedural program and the Player program, given the same values and
\* run at the same time.
PlayerInit ==
  /\ queue = <<>> /\ script = "" /\ stack = <<>> /\ scopes = <<>> /\ heap = <<>>
  /\ timers = <<>> /\ now = 0 /\ out = <<>> /\ error = "" /\ finished = <<>>
  /\ lab \in Players

PlayerNext ==
  \/ ProcAge \/ ProcSalary \/ NewPlayer \/ PrintAge \/ PrintSalary
  \/ SetProperty \/ CallMethods

PlayerSpec == PlayerInit /\ [][PlayerNext]_vars

(***************************************************************************)
(* Grouping people by age (playground_methods.js): people.reduce with an   *)
(* object as accumulator, and Object.groupBy.  A person is an object, so a *)
(* group holds references: person i is the object at people[i].  lab holds *)
(* the list, the accumulator and how many callbacks reduce has made, the   *)
(* two results and what console.log was given.                             *)
(***************************************************************************)
MaxPeople == 3

Names == {"Alice", "Bob"}

Ages == {-1, 0, 25, 30}

\* const people = [ { name, age }, ... ]
People == UNION { [1..n -> [name : Names, age : Ages]] : n \in 0..MaxPeople }

Elems(s) == { s[i] : i \in DOMAIN s }

\* acc[person.age], and the key Object.groupBy makes of what its callback
\* returns: the number as a string.
ToPropertyKey(age) == NumStr(age)

\* An integer index is the string of an integer from 0 on; the keys here are
\* those of the ages.
IsIndex(k) == \E a \in Ages : a >= 0 /\ ToPropertyKey(a) = k

IndexOf(k) == CHOOSE a \in Ages : a >= 0 /\ ToPropertyKey(a) = k

Precedes(k1, k2) == IsIndex(k1) /\ (~IsIndex(k2) \/ IndexOf(k1) < IndexOf(k2))

\* The own keys of an object come in the order: integer indices ascending,
\* then the other strings as they were created.
CreateDataProperty(o, k, v) ==
  [o EXCEPT
     !.keys = IF k \in Elems(o.keys) THEN o.keys
              ELSE IF IsIndex(k)
                   THEN SelectSeq(o.keys, LAMBDA x : Precedes(x, k)) \o <<k>>
                          \o SelectSeq(o.keys, LAMBDA x : ~Precedes(x, k))
                   ELSE Append(o.keys, k),
     !.vals = [x \in DOMAIN o.vals \cup {k} |-> IF x = k THEN v ELSE o.vals[x]]]

ObjectPrototype ==
  {"constructor", "hasOwnProperty", "isPrototypeOf", "propertyIsEnumerable",
   "toLocaleString", "toString", "valueOf", "__proto__"}

\* acc[k] finds a value (an array or a function, both truthy) on the object
\* or on Object.prototype.
Found(o, k) ==
  k \in DOMAIN o.vals \/ (o.proto = "Object.prototype" /\ k \in ObjectPrototype)

\* {}
EmptyObject == [proto |-> "Object.prototype", keys |-> <<>>, vals |-> <<>>]

NoObject == [proto |-> "", keys |-> <<>>, vals |-> <<>>]

groupByAge_unguarded(acc, person, id) ==
  CreateDataProperty(acc, ToPropertyKey(person.age), <<id>>)

\* (acc, person) => { if (!acc[person.age]) { acc[person.age] = []; }
\*                    acc[person.age].push(person); return acc; }
groupByAge_callback(acc, person, id) ==
  LET k == ToPropertyKey(person.age)
      made == IF ~Found(acc, k) THEN CreateDataProperty(acc, k, <<>>) ELSE acc
  IN  [made EXCEPT !.vals[k] = Append(@, id)]

\* (person) => { return person.age; }
grouped_callback(person) == person.age

\* Object.groupBy: the groups in the order their keys first appear ...
AddValueToKeyedGroup(groups, key, value) ==
  IF \E g \in 1..Len(groups) : groups[g].key = key
  THEN [g \in 1..Len(groups) |->
          IF groups[g].key = key
          THEN [groups[g] EXCEPT !.elements = Append(@, value)]
          ELSE groups[g]]
  ELSE Append(groups, [key |-> key, elements |-> <<value>>])

RECURSIVE GroupBy(_, _, _)
GroupBy(items, k, groups) ==
  IF k > Len(items) THEN groups
  ELSE GroupBy(items, k + 1,
               AddValueToKeyedGroup(groups, ToPropertyKey(grouped_callback(items[k])), k))

\* ... and then a property for each group, on an object without a prototype.
RECURSIVE FromGroups(_, _, _)
FromGroups(groups, g, obj) ==
  IF g > Len(groups) THEN obj
  ELSE FromGroups(groups, g + 1,
                  CreateDataProperty(obj, groups[g].key, groups[g].elements))

Object_groupBy(items) ==
  FromGroups(GroupBy(items, 1, <<>>), 1, [proto |-> "null", keys |-> <<>>, vals |-> <<>>])

Groupings ==
  { [people |-> ps, i |-> 0, acc |-> EmptyObject, groupByAge |-> NoObject,
     grouped |-> NoObject, out |-> <<>>, op |-> ""] : ps \in People }

\* people.reduce calls its callback for the next person.
ReduceCall ==
  /\ lab.op \in {"", "reduce"}
  /\ lab.i < Len(lab.people)
  /\ \E r \in { groupByAge_callback(lab.acc, lab.people[lab.i + 1], lab.i + 1) } :
       lab' = [lab EXCEPT !.i = lab.i + 1, !.acc = r, !.op = "reduce",
                 !.out = @ \o << [label |-> "acc", value |-> lab.acc],
                                 [label |-> "person", value |-> lab.people[lab.i + 1]] >>]
  /\ Idle

\* const groupByAge = (what reduce returns); console.log("groupByAge", groupByAge)
ReduceReturn ==
  /\ lab.op \in {"", "reduce"}
  /\ lab.i = Len(lab.people)
  /\ lab' = [lab EXCEPT !.groupByAge = lab.acc, !.op = "groupByAge",
               !.out = Append(@, [label |-> "groupByAge", value |-> lab.acc])]
  /\ Idle

\* const grouped = Object.groupBy(people, (person) => { return person.age; })
GroupByCall ==
  /\ lab.op = "groupByAge"
  /\ \E r \in { Object_groupBy(lab.people) } :
       lab' = [lab EXCEPT !.grouped = r, !.op = "grouped"]
  /\ Idle

GroupInit ==
  /\ queue = <<>> /\ script = "" /\ stack = <<>> /\ scopes = <<>> /\ heap = <<>>
  /\ timers = <<>> /\ now = 0 /\ out = <<>> /\ error = "" /\ finished = <<>>
  /\ lab \in Groupings

GroupNext == ReduceCall \/ ReduceReturn \/ GroupByCall

GroupSpec == GroupInit /\ [][GroupNext]_vars

-----------------------------------------------------------------------------
(* Properties.                                                             *)

\* The processes of script name that have ended.
Runs(name) == { finished[i] : i \in { j \in DOMAIN finished : finished[j].script = name } }
\* Every process of script name ended having printed lines, with the
\* uncaught exception err ("" when none).
Ends(name, lines, err) == \A r \in Runs(name) : r.out = lines /\ r.error = err
\* While script name runs, no exception is raised and what it has printed is
\* the beginning of lines.
Prints(name, lines) ==
  script = name => /\ error = ""
                   /\ Len(out) <= Len(lines)
                   /\ out = SubSeq(lines, 1, Len(out))
Count(lines, x) == Cardinality({ i \in DOMAIN lines : lines[i] = x })
DeadZone(name) == "ReferenceError: Cannot access '" \o name \o "' before initialization"

C2_PrintsAsCommented ==
  \A r \in Runs("variables") :
    /\ Count(r.out, "undefined") = 2 /\ Count(r.out, "2") = 4
    /\ Count(r.out, "1") = 2 /\ Count(r.out, "3") = 3
    /\ Count(r.out, "0") = 1 /\ Count(r.out, "100") = 1
    /\ Count(r.out, "20") = 1

\* C3: the hoisting playground raises no exception and prints its nine
\* lines in the order of the script.
C3_HoistingOutput ==
  LET lines == << "I'm fully hoisted!", "undefined", "Entering scope...",
                  "After declaration: I'm in TDZ", "I'm a function!",
                  "After declarations, myFunc is: I'm a variable",
                  "Before declaration: undefined", "After declaration: local",
                  "Second declaration wins!" >>
  IN Prints("hoisting", lines) /\ Ends("hoisting", lines, "")

C3_HoistingRan == Runs("hoisting") # {}

\* C4: console.log("1"); setTimeout(() => console.log("2"), 0);
\* console.log("3") prints 1, 3, 2: the callback runs after the code that
\* scheduled it has ended, whatever time has passed.
C4_TimerAfterSync ==
  /\ Prints("order", <<"1", "3", "2">>) /\ Ends("order", <<"1", "3", "2">>, "")
  /\ (script = "order" /\ Len(out) = 3) => now >= 1

C4_OrderRan == Runs("order") # {}

\* C5: the callbacks of a var loop all print 3: they read one binding i,
\* and none runs before the loop has left it at 3.
C5_VarLoopTimers ==
  /\ Prints("var_timers", <<"3", "3", "3">>) /\ Ends("var_timers", <<"3", "3", "3">>, "")
  /\ Prints("example_5", <<"3", "3", "3">>) /\ Ends("example_5", <<"3", "3", "3">>, "")
  /\ script \in {"var_timers", "example_5"} =>
       /\ \A k \in DOMAIN timers : Resolve("i", timers[k].fn.n) = 2
       /\ (out # <<>> \/ (stack # <<>> /\ stack[1].kind = "function")) =>
            scopes[2].b["i"].val = Num(3)

C5_VarLoopRan == Runs("var_timers") # {}

\* C6: the callbacks of a let loop print 0, 1, 2 in that order: each reads
\* the binding of its own iteration, and timers of one delay run in the
\* order they were scheduled, so a var loop then a let loop print
\* 3, 3, 3, 0, 1, 2.
C6_LetLoopTimers ==
  /\ Prints("let_timers", <<"0", "1", "2">>) /\ Ends("let_timers", <<"0", "1", "2">>, "")
  /\ Prints("example_6", <<"0", "1", "2">>) /\ Ends("example_6", <<"0", "1", "2">>, "")
  /\ Prints("loops", <<"3", "3", "3", "0", "1", "2">>)
  /\ Ends("loops", <<"3", "3", "3", "0", "1", "2">>, "")
  /\ script \in {"let_timers", "example_6"} =>
       \A j, k \in DOMAIN timers :
         j # k => Resolve("i", timers[j].fn.n) # Resolve("i", timers[k].fn.n)

C6_LetLoopRan == Runs("loops") # {}

\* C7: varLoop() prints 3, 3, 3 and then "After loop: 3".
C7_AfterLoopLast == Ends("varLoop", <<"3", "3", "3", "After loop: 3">>, "")

\* C8: a read of a let binding before its declaration has run raises
\* ReferenceError: at the top level, in a block, through typeof (which gives
\* 'undefined' for an undeclared name), and in a function whose enclosing
\* scope has an initialised binding of the name; after the declaration the
\* read gives the value.
C8_DeadZone ==
  /\ Ends("tdz", <<>>, DeadZone("tdzVar"))
  /\ Ends("tdz_block", <<>>, DeadZone("blockVar"))
  /\ Ends("tdz_typeof", <<"undefined">>, DeadZone("declaredVar"))
  /\ Ends("tdz_outer", <<>>, DeadZone("outer"))
  /\ Ends("example_2", <<>>, DeadZone("b"))
  /\ Ends("example_4", <<"2", "1">>, "")
  /\ \A r \in Runs("hoisting") : r.out[4] = "After declaration: I'm in TDZ"

C8_DeadZoneRan ==
  /\ Runs("tdz_typeof") # {} \/ Runs("tdz_block") # {}
  /\ queue = <<>> /\ script = ""

\* C9: with var myFunc = "I'm a variable" and function myFunc() {...} in one
\* scope, typeof myFunc is 'function' before the assignment and 'string'
\* after it, and a call before the assignment runs the function.
C9_FunctionThenString ==
  /\ Prints("myFunc", <<"function", "string">>)
  /\ Ends("myFunc", <<"function", "string">>, "")
  /\ \A r \in Runs("hoisting") :
       /\ r.out[5] = "I'm a function!"
       /\ r.out[6] = "After declarations, myFunc is: I'm a variable"

C9_MyFuncRan == Runs("myFunc") # {}

\* C10: calling a function expression before its var is assigned raises
\* TypeError: funcExpr is not a function, and typeof of it is 'undefined',
\* while typeof of a function declared in the scope is 'function'.
C10_ExpressionNotHoisted ==
  /\ Ends("funcExpr", <<>>, "TypeError: funcExpr is not a function")
  /\ Ends("funcDecl", <<"function", "undefined">>, "")

C10_FuncExprRan == Runs("funcExpr") # {} /\ error = "" /\ script = ""

\* C11: console.log(a, b, c) before var a = 1; let b = 2; const c = 3 prints
\* the line undefined ReferenceError ReferenceError.
C11_PrintsThreeResults ==
  \A r \in Runs("abc") : r.out = << "undefined ReferenceError ReferenceError" >>

\* C12: a var of a function shadows the outer binding of its name in the
\* whole function: the read before the declaration prints undefined, the
\* read after it the local value, and the outer binding keeps its value.
C12_VarShadows ==
  /\ Prints("shadowTest", <<"undefined", "local">>)
  /\ Ends("shadowTest", <<"undefined", "local">>, "")
  /\ Prints("shadow_outer", <<"undefined", "inner">>)
  /\ Ends("shadow_outer", <<"undefined", "inner">>, "")
  /\ \A r \in Runs("hoisting") :
       /\ r.out[7] = "Before declaration: undefined"
       /\ r.out[8] = "After declaration: local"
  /\ (script = "shadowTest" /\ out # <<>>) => scopes[2].b["globalVar"].val = Str("global")
  /\ (script = "shadow_outer" /\ out # <<>>) => scopes[2].b["outer"].val = Str("outer")
  /\ (script = "hoisting" /\ Len(out) >= 7) => scopes[2].b["shadowVar"].val = Str("global")

C12_ShadowTestRan == Runs("shadowTest") # {} /\ scopes[2].b["globalVar"].val = Str("global")

\* The scopes other than the script's own that bind name.
Inner(name) == { s \in DOMAIN scopes : s > 2 /\ name \in DOMAIN scopes[s].b }

\* C13: var x = 2 in an if block assigns the outer var x (2 inside, 2
\* after); let y = 2 in a block is another binding and the outer let keeps
\* its value (2 inside, 1 after).
C13_BlockVarAndLet ==
  /\ Prints("example_3", <<"2", "2">>) /\ Ends("example_3", <<"2", "2">>, "")
  /\ Prints("example_4", <<"2", "1">>) /\ Ends("example_4", <<"2", "1">>, "")
  /\ Prints("shadowing", <<"inner", "outer">>) /\ Ends("shadowing", <<"inner", "outer">>, "")
  /\ script = "example_3" => Inner("x") = {}
  /\ (script = "example_3" /\ out # <<>>) => scopes[2].b["x"].val = Num(2)
  /\ (script = "example_4" /\ out # <<>>) =>
       /\ scopes[2].b["y"].val = Num(1)
       /\ \E s \in Inner("y") : scopes[s].b["y"].val = Num(2)

C13_BlocksRan == Runs("example_4") # {} /\ Inner("y") # {}

\* C14: obj_1 = {...} on a const raises TypeError: Assignment to constant
\* variable. and the binding still refers to the object it was declared
\* with, unchanged; obj.a = 100 on a const succeeds and obj.a is then 100.
C14_ConstBinding ==
  /\ Ends("example_7", <<>>, "TypeError: Assignment to constant variable.")
  /\ (script = "example_7" /\ error # "") =>
       /\ scopes[2].b["obj_1"].val = Obj(3)
       /\ heap[3].vals["a"] = Num(1)
  /\ Prints("example_8", <<"100">>) /\ Ends("example_8", <<"100">>, "")
  /\ (script = "example_8" /\ out # <<>>) =>
       /\ scopes[2].b["obj"].val = Obj(3)
       /\ heap[3].vals["a"] = Num(100)

C14_ConstRan == Runs("example_7") # {} /\ scopes[2].b["obj_1"].val = Obj(3)

\* C15: the n-th call of the counter returns n: count lives in the scope of
\* the one call of createCounter, outlives that call, is the number of calls
\* of the counter made so far, and is bound in no scope the script's own
\* code can name.
C15_CounterCounts ==
  /\ Prints("counter", <<"1", "2", "3">>) /\ Ends("counter", <<"1", "2", "3">>, "")
  /\ Prints("outer", <<"1", "2">>) /\ Ends("outer", <<"1", "2">>, "")
  /\ script \in {"counter", "outer"} =>
       /\ Resolve("count", 2) = 0
       /\ Inner("count") \subseteq {3}
       /\ (3 \in DOMAIN scopes /\ scopes[3].b["count"].init) =>
            LET n == scopes[3].b["count"].val.n IN
            /\ n \in {Len(out), Len(out) + 1}
            /\ n = Len(out) + 1 => (stack # <<>> /\ stack[1].called)

C15_CounterRan == Runs("counter") # {} /\ scopes[3].b["count"].val = Num(3)

\* C16: running main.js of the circular program prints b loaded, a =
\* undefined and then a loaded, b = 2.
C16_CircularOutput ==
  Ends("circular", << "b loaded, a = undefined", "a loaded, b = 2" >>, "")

\* C17: main.js importing x and z from a math.js that exports x and y prints
\* 1 and then fails with ReferenceError: z is not defined.
C17_MissingImport ==
  Ends("missing_export", << "1" >>, "ReferenceError: z is not defined")

\* The numbers ns as the elements of an array.
Ns(ns) == [i \in DOMAIN ns |-> Num(ns[i])]
\* The elements of the array the last call returned.
Removed == Elements(lab.h, lab.ret.n)

C19_NonMutating ==
  /\ lab.op \in {"slice", "concat", "join", "map", "filter", "reduce"} => Arr = lab.was
  /\ lab.op \in {"slice", "concat", "map", "filter"} =>
       /\ lab.ret.t = "object" /\ lab.ret.n > lab.base
       /\ \A i \in DOMAIN lab.args : lab.args[i] # lab.ret
  /\ lab.res # Undef => Elements(lab.h, lab.res.n) = lab.kept

\* The names were mapped out of the array, and then the first person in
\* the array was renamed.
C19_RenamedAfterMap ==
  /\ lab.op = "set" /\ lab.res # Undef /\ lab.kept = <<Str("John"), Str("Jane")>>
  /\ GetProp(lab.h, Arr[1].n, "name") = Str("Bob")

RECURSIVE Total(_)
Total(ns) == IF ns = <<>> THEN 0 ELSE Total(Front(ns)) + Last(ns).n

\* C20: reduce on an empty array without an initial value raises
\* "TypeError: Reduce of empty array with no initial value"; on an empty
\* array with an initial value it returns that value and never calls the
\* callback; on a non-empty array without an initial value it calls the
\* callback once per element after the first, and for numbers returns their
\* sum; the sum of [1,2,3,4] is 10 with the initial value 0 and without.
C20_Reduce ==
  lab.op = "reduce" =>
    /\ lab.was = <<>> /\ lab.args = <<>> =>
         lab.err = "TypeError: Reduce of empty array with no initial value"
    /\ lab.was = <<>> /\ lab.args # <<>> =>
         lab.err = "" /\ lab.ret = lab.args[1] /\ lab.cbs = 0
    /\ lab.was # <<>> /\ lab.args = <<>> =>
         /\ lab.err = "" /\ lab.cbs = Len(lab.was) - 1
         /\ (\A i \in DOMAIN lab.was : lab.was[i].t = "number") => lab.ret = Num(Total(lab.was))
    /\ lab.was = Ns(<<1, 2, 3, 4>>) => lab.ret = Num(10)

\* An array was emptied and then reduced without an initial value.
C20_EmptyReduced == lab.op = "reduce" /\ lab.was = <<>> /\ lab.args = <<>> /\ lab.n > 1

\* The own properties of object id of heap h.
Own(h, id) == DOMAIN h[id].vals
\* The last statement was operation op on object id and key k.
Did(op, id, k) == lab.op = op /\ Len(lab.args) >= 2 /\ lab.args[1] = Obj(id) /\ lab.args[2] = Str(k)
\* The value a read of k finds on object id alone.
OwnValue(h, id, k) == IF k \in Own(h, id) THEN h[id].vals[k] ELSE Undef

\* C21: for a child made by Object.create(base): reading a name the child
\* does not own gives the value base has at that moment; Object.keys and
\* Object.hasOwn of the child see its own properties only, while in also
\* sees base's; writing a name on the child makes it an own property of the
\* child and leaves base as it was; deleting an own property of the child
\* leaves base as it was, and the name then reads as base's value.
C21_PrototypeChain ==
  \A id \in DOMAIN lab.h : \A k \in PropKeys :
    lab.h[id].proto # 0 =>
      /\ Did("read", id, k) /\ k \notin Own(lab.h, id)
           => lab.ret = OwnValue(lab.h, lab.h[id].proto, k)
      /\ lab.op = "keys" /\ lab.args = <<Obj(id)>>
           => { lab.ret[i] : i \in DOMAIN lab.ret } = Own(lab.h, id)
      /\ Did("hasOwn", id, k) => lab.ret = Bool(k \in Own(lab.h, id))
      /\ Did("in", id, k)
           => lab.ret = Bool(k \in Own(lab.h, id) \cup Own(lab.h, lab.h[id].proto))
      /\ Did("assign", id, k) /\ <<id, k>> \notin lab.ro /\ <<lab.h[id].proto, k>> \notin lab.ro
           => /\ OwnValue(lab.h, id, k) = lab.args[3]
              /\ lab.h[lab.h[id].proto] = lab.was[lab.h[id].proto]
      /\ Did("delete", id, k) /\ <<id, k>> \notin lab.ro
           => /\ k \notin Own(lab.h, id)
              /\ lab.h[lab.h[id].proto] = lab.was[lab.h[id].proto]
              /\ GetProp(lab.h, id, k) = OwnValue(lab.h, lab.h[id].proto, k)

\* base.a was changed to 2 and then read through the child, which has no a
\* of its own.
C21_ChangeSeenThroughChild ==
  /\ Did("read", 2, "a") /\ lab.proxy = 0 /\ Len(lab.h) = 2
  /\ "a" \notin Own(lab.h, 2) /\ lab.ret = Num(2) /\ lab.n = 3

C23_ReadOnlyProperty ==
  /\ \A p \in lab.ro : lab.h[p[1]].vals[p[2]] = IF p[2] = "a" THEN Num(1) ELSE Num(2)
  /\ \A p \in lab.ro : lab.h[p[1]].vals[p[2]] = lab.was[p[1]].vals[p[2]]
  /\ \A id \in DOMAIN lab.h : \A k \in PropKeys :
       Did("assign", id, k) /\ <<id, k>> \in lab.ro =>
         /\ lab.h = lab.was
         /\ ~lab.strict => lab.err = ""
         /\ lab.strict =>
              lab.err = "TypeError: Cannot assign to read only property" \o " '" \o k
                          \o "' of object '#<Object>'"
  /\ lab.err # "" => lab.strict /\ lab.op \in {"assign", "delete", "proxy.assign"}

\* In strict mode o.a = 2 was the second statement and threw.
C23_StrictAssignThrew ==
  /\ lab.strict /\ Did("assign", 1, "a") /\ <<1, "a">> \in lab.ro /\ lab.err # ""
  /\ lab.n = 2 /\ lab.h[1].vals["a"] = Num(1)

\* The object obj of the running script, once declared.
TheObj == scopes[2].b["obj"].val

\* C24 (scripts outside strict mode): inc() called through const inc =
\* obj.inc, and obj.inc() where inc is an arrow function, raise nothing and
\* leave obj.n at 0, and the console.log(obj.n) after them prints 0;
\* windowPrintName(), called with no receiver, prints undefined as the last
\* line of the this playground.
C24_ThisIsNotObj ==
  /\ Ends("detached_inc", <<"0">>, "") /\ Prints("detached_inc", <<"0">>)
  /\ Ends("arrow_inc", <<"0">>, "") /\ Prints("arrow_inc", <<"0">>)
  /\ (script \in {"detached_inc", "arrow_inc"} /\ Len(scopes) >= 2
        /\ scopes[2].b["obj"].init)
       => GetProp(heap, TheObj.n, "n") = Num(0)
  /\ \A r \in Runs("this") : r.error = "" /\ Last(r.out) = "undefined"

\* The arrow function ran with a this that has an n, and 0 was printed.
C24_ArrowRan == Runs("arrow_inc") # {} /\ GetProp(heap, 2, "n") = NaN /\ out = <<"0">>

\* The object bound to name at the top level of the running script.
Global(name) == heap[scopes[2].b[name].val.n]

\* C25: in the this playground sakib.printPlayerName() prints Sakib,
\* tamim.printPlayerName() prints Tamim, mahadi.printName() prints Mahadi and
\* mahadi.father.printName() prints John; when printPlayerNameFunction(sakib)
\* has returned and printPlayerNameFunction(tamim) has not been called yet,
\* sakib has the method and tamim has not; afterwards each has a
\* printPlayerName, and both still have their names.
C25_ImplicitBinding ==
  /\ \A r \in Runs("this") :
       r.error = "" /\ SubSeq(r.out, 2, 5) = <<"Sakib", "Tamim", "Mahadi", "John">>
  /\ (script = "this" /\ Len(stack) = 1 /\ Top.pc = 7 /\ ~Top.called)
       => /\ Global("sakib").keys = <<"name", "printPlayerName">>
          /\ Global("tamim").keys = <<"name">>
  /\ (script = "this" /\ Len(stack) = 1 /\ Top.pc > 7)
       => /\ Global("sakib").keys = <<"name", "printPlayerName">>
          /\ Global("tamim").keys = <<"name", "printPlayerName">>
          /\ Global("sakib").vals["name"] = Str("Sakib")
          /\ Global("tamim").vals["name"] = Str("Tamim")

\* The playground ran alone and mahadi.father.printName() has printed.
C25_FatherPrinted ==
  /\ script = "this" /\ finished = <<>> /\ Len(stack) = 1 /\ Len(out) = 5
  /\ Global("mahadi").vals["name"] = Str("Mahadi")

\* The line printName prints for the object and attributes of case c.
Line(c) ==
  "Mr. "
    \o (IF \E i \in DOMAIN c.o.props : c.o.props[i].k = "name"
        THEN c.o.props[CHOOSE i \in DOMAIN c.o.props : c.o.props[i].k = "name"].x.v.s
        ELSE "undefined")
    \o " is " \o c.v1 \o " and " \o c.v2

\* C26: for each object o and attributes v1, v2 the section is run with,
\* printName.call(o, v1, v2), printName.apply(o, [v1, v2]) and
\* printName.bind(o)(v1, v2) print the same line, "Mr. <o.name> is <v1> and
\* <v2>", and o has throughout the properties and values it was written
\* with, printName not among them.
C26_ExplicitBindings ==
  \A n \in DOMAIN ExplicitCases :
    /\ Ends(n, <<Line(ExplicitCases[n]), Line(ExplicitCases[n]), Line(ExplicitCases[n])>>, "")
    /\ Prints(n, <<Line(ExplicitCases[n]), Line(ExplicitCases[n]), Line(ExplicitCases[n])>>)
    /\ (script = n /\ Len(scopes) >= 2 /\ scopes[2].b["Nazmul"].init)
         => /\ Global("Nazmul").keys =
                 [i \in DOMAIN ExplicitCases[n].o.props |-> ExplicitCases[n].o.props[i].k]
            /\ \A i \in DOMAIN ExplicitCases[n].o.props :
                 Global("Nazmul").vals[ExplicitCases[n].o.props[i].k]
                   = ExplicitCases[n].o.props[i].x.v

\* The three bindings have printed for the object { name: "Sakib" }.
C26_SakibBound == Runs("explicit_4") # {} /\ out = <<"Mr. Sakib is Smart and Handome",
                     "Mr. Sakib is Smart and Handome", "Mr. Sakib is Smart and Handome">>

\* C27: given the same birth date, salary, months and clock, the methods
\* of the Player return what the procedural functions return, and each line
\* the Player program prints is the procedural program's line with the
\* word Your replaced by what names the player.
C27_PlayerAsProcedural ==
  /\ lab.age # 0 - 1 /\ lab.years # 0 - 1 => lab.age = lab.years
  /\ lab.age # 0 - 1 => lab.age = calculate_age(lab.dob, lab.now)
  /\ lab.pay # "" => lab.pay = getSalary(lab.salary, lab.months)
  /\ \A i \in DOMAIN lab.oo \cap DOMAIN lab.proc :
       \E rest \in { " age is " \o NumStr(lab.years) \o " years",
                     " salary is " \o getSalary(lab.salary, lab.months) \o " Taka" } :
         /\ lab.proc[i] = "Your" \o rest
         /\ \E who \in { "undefined", lab.name } : lab.oo[i] = who \o rest

\* Both programs have printed their lines for the values of the source and
\* the methods were called again: 36 years and 6,000,000 Taka.
C27_BothPrograms ==
  /\ Len(lab.proc) = 2 /\ Len(lab.oo) = 2 /\ lab.sets = 0
  /\ lab.years = 36 /\ lab.age = 36 /\ lab.pay = "6,000,000"

\* C29: the four private fields of a Player have at all times the values
\* the constructor was given; mahadi.name read from outside is undefined,
\* so each line the Player program prints begins with undefined and not
\* with the player's name; and after any assignment to mahadi.name (or to a
\* property named as another field) calculate_age() and getSalary() return
\* what they returned for the printed lines.
C29_PrivateFields ==
  /\ lab.player # <<>> =>
       lab.player[1].priv = [name |-> lab.name, birthDate |-> lab.dob,
                             monthlySalary |-> lab.salary, noOfMonths |-> lab.months]
  /\ lab.player # <<>> /\ lab.sets = 0 => Property(lab.player[1], "name") = Undef
  /\ \A i \in DOMAIN lab.oo :
       lab.oo[i] \in { "undefined age is " \o NumStr(calculate_age(lab.dob, lab.now)) \o " years",
                       "undefined salary is " \o toLocaleString(lab.salary * lab.months)
                         \o " Taka" }
  /\ lab.op = "call" =>
       /\ lab.oo[1] = "undefined age is " \o NumStr(lab.age) \o " years"
       /\ lab.oo[2] = "undefined salary is " \o lab.pay \o " Taka"

\* mahadi.name was assigned and the methods were called after it.
C29_CalledAfterAssignment ==
  /\ lab.op = "call" /\ lab.sets = 1 /\ "name" \in DOMAIN lab.player[1].pub
  /\ lab.player[1].pub["name"] = Str("Tamim")

\* The day number of a date, by the closed formula.
EpochDay(date) ==
  LET y == IF date.m <= 2 THEN date.y - 1 ELSE date.y
      era == y \div 400
      yoe == y - era * 400
      doy == (153 * (IF date.m > 2 THEN date.m - 3 ELSE date.m + 9) + 2) \div 5 + date.d - 1
  IN era * 146097 + yoe * 365 + yoe \div 4 - yoe \div 100 + doy - 719468

\* C30: for a birth date dob and the clock now, calculate_age returns a
\* whole number that is not negative: |Y - 1970| for the year Y in which the
\* instant now - dob after 1970-01-01 lies; 0 when dob is now; at least as
\* much for any earlier birth date, when dob is not in the future; and for
\* a dob in the future a positive number, 1 when dob is at most 365 days
\* ahead. The method of Player, when it has been called, has returned the
\* same.
C30_Age ==
  lab.op = "proc" /\ Len(lab.proc) = 1 =>
    /\ lab.years \in Nat
    /\ \E Y \in 1900..2040 :
         /\ EpochDay(Date(Y, 1, 1)) <= lab.now - EpochDay(lab.dob)
         /\ lab.now - EpochDay(lab.dob) < EpochDay(Date(Y + 1, 1, 1))
         /\ lab.years = IF Y < 1970 THEN 1970 - Y ELSE Y - 1970
    /\ EpochDay(lab.dob) = lab.now => lab.years = 0
    /\ EpochDay(lab.dob) <= lab.now =>
         \A e \in BirthDates :
           EpochDay(e) <= EpochDay(lab.dob) => calculate_age(e, lab.now) >= lab.years
    /\ EpochDay(lab.dob) > lab.now => lab.years > 0
    /\ EpochDay(lab.dob) > lab.now /\ EpochDay(lab.dob) - lab.now <= 365 => lab.years = 1
    /\ lab.age # 0 - 1 => lab.age = lab.years

\* The age was calculated for a birth date one day in the future.
C30_BornTomorrow == lab.years = 1 /\ EpochDay(lab.dob) = lab.now + 1

\* C28: for a list of people with numeric ages, the object the reduce-based
\* grouping makes has the keys, in the same order, and the groups of the
\* object Object.groupBy(people, p => p.age) makes; after each callback of
\* reduce, every person seen so far is in exactly one group, once, the one
\* keyed by the person's age; a group lists its people in the order of the
\* input list; no group is empty.
C28_GroupByAge ==
  LET a == lab.acc
      b == lab.grouped
  IN
  /\ DOMAIN a.vals = Elems(a.keys) /\ Len(a.keys) = Cardinality(Elems(a.keys))
  /\ \A k \in DOMAIN a.vals :
       LET g == a.vals[k] IN
       /\ g # <<>>
       /\ \A x, y \in 1..Len(g) : x < y => g[x] < g[y]
       /\ \A x \in 1..Len(g) :
            g[x] \in 1..lab.i /\ NumStr(lab.people[g[x]].age) = k
  /\ \A i \in 1..lab.i : \E k \in DOMAIN a.vals : i \in Elems(a.vals[k])
  /\ lab.op \in {"groupByAge", "grouped"} =>
       lab.i = Len(lab.people) /\ lab.groupByAge = a
  /\ lab.op = "grouped" =>
       /\ b.keys = a.keys /\ DOMAIN b.vals = DOMAIN a.vals
       /\ \A k \in DOMAIN a.vals : b.vals[k] = a.vals[k]

C28_TwoOfThirty ==
  /\ lab.op = "grouped" /\ Len(lab.people) = 3
  /\ lab.people[1].age = 30 /\ lab.people[2].age = 25 /\ lab.people[3].age = 30
  /\ lab.people[1] = lab.people[3]
  /\ lab.grouped.keys = <<"25", "30">>
  /\ lab.groupByAge.vals["30"] = <<1, 3>> /\ lab.grouped.vals["25"] = <<2>>

====
